---- MODULE Spec2Model ----
(***************************************************************************)
(* Model of the PFR configuration area (spsdk/pfr/pfr.py) and of the       *)
(* elftosb container builders (spsdk/apps/elftosb.py).                     *)
(*                                                                         *)
(* Bytes are sequences of naturals 0..255.  Python's zero-based half-open  *)
(* slices are modelled by Slice and SliceAssign, which clip exactly like   *)
(* Python does, so that a value of the wrong length changes the length of  *)
(* the buffer it is written into.                                          *)
(***************************************************************************)
EXTENDS Integers, Sequences, FiniteSets, TLC

VARIABLES
    area, regs, op, ret, hookRuns,   \* a configuration area and its last call
    rkKeys, rkWidth, rkOut,          \* one call of _calc_rotkh
    sbConf, sb, written,             \* one run of generate_secure_binary
    bdArgs, bd, bdFiles, bdEcho,     \* one run of generate_secure_binary_21
    mbiConf, mbi, mbiOut,            \* one run of generate_master_boot_image
    conf, confArg, confRet,          \* a PfrConfiguration and its last call
    bcArgs, bcOut                    \* one call of _bc_enums

pfrVars == <<area, regs, op, ret, hookRuns>>

rotkhVars == <<rkKeys, rkWidth, rkOut>>

sbVars == <<sbConf, sb, written>>

bdVars == <<bdArgs, bd, bdFiles, bdEcho>>

mbiVars == <<mbiConf, mbi, mbiOut>>

confVars == <<conf, confArg, confRet>>

bcVars == <<bcArgs, bcOut>>

vars == <<pfrVars, rotkhVars, sbVars, bdVars, mbiVars, confVars, bcVars>>

-----------------------------------------------------------------------------
(* Bounds of the model *)

\* longest key list handed to export in the configuration area machine
MaxExportKeys == 1

\* longest key list handed to _calc_rotkh alone
MaxRotkhKeys == 5

\* most commands in a Secure Binary v3.1 configuration
MaxCommands == 2

-----------------------------------------------------------------------------
(* Program constants *)

BINARY_SIZE == 512

ROTKH_REGISTER == "ROTKH"

\* b"SEAL"
MARK == <<83, 69, 65, 76>>

NoError == "none"

-----------------------------------------------------------------------------
(* Python byte-string primitives *)

Min(a, b) == IF a < b THEN a ELSE b

Max(a, b) == IF a > b THEN a ELSE b

\* a function on 1..n as a sequence
AsSeq(f) == f \o <<>>

\* bytes(n) / bytearray(n): n zero bytes
Zeros(n) == AsSeq([i \in 1..n |-> 0])

SeqRange(s) == {s[i] : i \in DOMAIN s}

\* data[start:stop]
Slice(data, start, stop) ==
    SubSeq(data, Min(start, Len(data)) + 1, Min(stop, Len(data)))

\* data[start:stop] = val   (on a bytearray: the length may change)
SliceAssign(data, start, stop, val) ==
    LET s == Min(start, Len(data))
        e == Max(Min(stop, Len(data)), s)
    IN  SubSeq(data, 1, s) \o val \o SubSeq(data, e + 1, Len(data))

\* b * n
RECURSIVE Repeat(_, _)
Repeat(b, n) == IF n <= 0 THEN <<>> ELSE b \o Repeat(b, n - 1)

\* b.ljust(n, b"\x00")
Ljust(b, n) == IF Len(b) >= n THEN b ELSE b \o Zeros(n - Len(b))

\* bytearray().join(parts)
RECURSIVE Join(_)
Join(parts) == IF parts = <<>> THEN <<>> ELSE Head(parts) \o Join(Tail(parts))

\* change_endianism accepts 1, 2 and 4k bytes and raises SPSDKError otherwise
EndianOk(b) == Len(b) = 1 \/ Len(b) = 2 \/ Len(b) % 4 = 0

\* change_endianism: the bytes of every 4-byte word (or of the one 2-byte
\* value) in the opposite order
ChangeEndianism(b) ==
    IF Len(b) = 2 THEN <<b[2], b[1]>>
    ELSE IF Len(b) % 4 = 0
         THEN AsSeq([i \in 1..Len(b) |-> b[((i - 1) \div 4) * 4 + (4 - ((i - 1) % 4))]])
         ELSE b

-----------------------------------------------------------------------------
(* The register schema: database.json and the register XML of a device.     *)
(* Three configuration areas stand for the supported (class, device) pairs: *)
(*   CMPA of lpc55s6x: a register with a computed field, and ROTKH as a     *)
(*                     256-bit group of eight 32-bit registers,             *)
(*   CFPA of lpc55s6x: no ROTKH, one register with the reverse flag and one *)
(*                     ignored register,                                    *)
(*   CMPA of lpc55s3x: ROTKH is one plain 384-bit register.                 *)

\* The CFPA area is built for a revision that is not the latest one.
Areas ==
    { [cls |-> "CMPA", device |-> "lpc55s6x", revision |-> "1b"],
      [cls |-> "CFPA", device |-> "lpc55s6x", revision |-> "0a"],
      [cls |-> "CMPA", device |-> "lpc55s3x", revision |-> "1b"] }

Revisions == {"0a", "1b"}

\* RegConfig.get_latest_revision
LatestRevision == "1b"

\* the sub-registers ROTKH0..ROTKH7 of the ROTKH group
RotkhSubs == [k \in 1..8 |-> [offset |-> 80 + 4 * (k - 1), width |-> 32, reverse |-> FALSE]]

Plain(off, w, rev, hooks, reset) ==
    [offset |-> off, width |-> w, reverse |-> rev, subs |-> <<>>,
     hooks |-> hooks, reset |-> reset]

\* every register of the area's XML: the names in file order, and the
\* definition of each
NamesCmpa6x == <<"CC_SOCU_PIN", "ROTKH", "SHA256_DIGEST0">>

DefsCmpa6x ==
    [n \in SeqRange(NamesCmpa6x) |->
        CASE n = "CC_SOCU_PIN" ->
                Plain(4, 32, FALSE, <<"pfr_reg_inverse_high_half">>, <<0, 0, 0, 0>>)
          [] n = "ROTKH" ->
                [offset |-> 80, width |-> 256, reverse |-> TRUE, subs |-> RotkhSubs,
                 hooks |-> <<>>, reset |-> Zeros(32)]
          [] OTHER -> Plain(480, 32, FALSE, <<>>, <<0, 0, 0, 0>>)]

NamesCfpa6x == <<"HEADER", "VERSION", "RESERVED", "CUSTOMER_DEFINED0", "SHA256_DIGEST0">>

DefsCfpa6x ==
    [n \in SeqRange(NamesCfpa6x) |->
        CASE n = "HEADER" -> Plain(0, 32, FALSE, <<>>, <<0, 0, 0, 0>>)
          [] n = "VERSION" ->
                Plain(4, 32, FALSE, <<"pfr_reg_inverse_high_half">>, <<0, 0, 0, 0>>)
          [] n = "RESERVED" -> Plain(12, 32, FALSE, <<>>, <<222, 173, 190, 239>>)
          [] n = "CUSTOMER_DEFINED0" -> Plain(256, 32, TRUE, <<>>, <<0, 0, 0, 0>>)
          [] OTHER -> Plain(480, 32, FALSE, <<>>, <<0, 0, 0, 0>>)]

NamesCmpa3x == <<"BOOT_CFG", "ROTKH", "CMPA_CMAC0">>

DefsCmpa3x ==
    [n \in SeqRange(NamesCmpa3x) |->
        CASE n = "BOOT_CFG" -> Plain(0, 32, FALSE, <<>>, <<0, 0, 0, 0>>)
          [] n = "ROTKH" -> Plain(96, 384, FALSE, <<>>, Zeros(48))
          [] OTHER -> Plain(496, 32, FALSE, <<>>, <<0, 0, 0, 0>>)]

SchemaNames(a) ==
    IF a.cls = "CFPA" THEN NamesCfpa6x
    ELSE IF a.device = "lpc55s6x" THEN NamesCmpa6x ELSE NamesCmpa3x

SchemaDefs(a) ==
    IF a.cls = "CFPA" THEN DefsCfpa6x
    ELSE IF a.device = "lpc55s6x" THEN DefsCmpa6x ELSE DefsCmpa3x

\* RegConfig.get_ignored_registers
IgnoredRegisters(cls, dev) == IF cls = "CFPA" THEN {"RESERVED"} ELSE {}

\* RegConfig.get_computed_registers
ComputedRegisters(cls, dev) == {"SHA256_DIGEST0", "CMPA_CMAC0"}

\* RegConfig.get_seal_start_address: the name of the first seal register
SealStartRegister(cls, dev) ==
    IF dev = "lpc55s3x" THEN "CMPA_CMAC0" ELSE "SHA256_DIGEST0"

\* RegConfig.get_seal_count
SealCountOf(cls, dev) == IF dev = "lpc55s3x" THEN 4 ELSE 8

-----------------------------------------------------------------------------
(* Registers: the register file of one area *)

\* the elements of s that are in keep, in order
RECURSIVE Filter(_, _)
Filter(s, keep) ==
    IF s = <<>> THEN <<>>
    ELSE IF Head(s) \in keep THEN <<Head(s)>> \o Filter(Tail(s), keep)
    ELSE Filter(Tail(s), keep)

\* Registers.load_registers_from_xml(filter_reg = ignored): the loaded
\* registers, in order
LoadedNames(a) ==
    Filter(SchemaNames(a), SeqRange(SchemaNames(a)) \ IgnoredRegisters(a.cls, a.device))

\* Registers.get_reg_names
GetRegNames(a) == SeqRange(LoadedNames(a))

RegDef(a, name) == SchemaDefs(a)[name]

\* Registers.find_reg: raises SPSDKRegsErrorRegisterNotFound when absent
HasReg(a, name) == name \in GetRegNames(a)

\* Registers.get_registers(exclude)
RegistersExcept(a, exclude) == Filter(LoadedNames(a), GetRegNames(a) \ exclude)

\* the registers as loaded: every register at its reset value
ResetRegs(a) == [n \in GetRegNames(a) |-> RegDef(a, n).reset]

\* RegsRegister.get_value
GetValue(rg, name) == rg[name]

\* the value of sub-register k of a group: the k-th slice of the group's value
SubValue(rg, name, subs, k) ==
    Slice(rg[name], (subs[k].offset - subs[1].offset),
                    (subs[k].offset - subs[1].offset) + subs[k].width \div 8)

-----------------------------------------------------------------------------
(* Computed fields *)

\* the compute methods BaseConfigArea defines (hasattr(self, method))
ComputeMethods == {"pfr_reg_inverse_high_half"}

\* pfr_reg_inverse_high_half with the halves exchanged: bytes 2 and 3 become
\* the inverse of bytes 0 and 1
pfr_reg_inverse_low_half(val) ==
    IF Len(val) < 4 THEN [err |-> "IndexError", val |-> val]
    ELSE [err |-> NoError,
          val |-> AsSeq([i \in 1..Len(val) |->
                     IF i = 3 THEN 255 - val[1] ELSE IF i = 4 THEN 255 - val[2] ELSE val[i]])]

\* pfr_reg_inverse_high_half: bytes 0 and 1 become the inverse of bytes 2 and 3.
\* Indexing a value shorter than 4 bytes raises IndexError.
pfr_reg_inverse_high_half(val) ==
    IF Len(val) < 4 THEN [err |-> "IndexError", val |-> val]
    ELSE [err |-> NoError,
          val |-> AsSeq([i \in 1..Len(val) |->
                     IF i = 1 THEN 255 - val[3] ELSE IF i = 2 THEN 255 - val[4] ELSE val[i]])]

\* reg_computed_fields_handler: the methods of the register's computed
\* fields, applied in order; an unknown method raises SPSDKPfrError
RECURSIVE reg_computed_fields_handler(_, _)
reg_computed_fields_handler(val, methods) ==
    IF methods = <<>> THEN [err |-> NoError, val |-> val]
    ELSE IF Head(methods) \notin ComputeMethods THEN [err |-> "SPSDKPfrError", val |-> val]
    ELSE LET r == pfr_reg_inverse_high_half(val)
         IN  IF r.err # NoError THEN r
             ELSE reg_computed_fields_handler(r.val, Tail(methods))

\* RegsRegister.set_value(val, raw): the hooks run unless raw
SetValue(a, rg, name, val, raw) ==
    LET r == IF raw THEN [err |-> NoError, val |-> val]
             ELSE reg_computed_fields_handler(val, RegDef(a, name).hooks)
    IN  IF r.err # NoError THEN [err |-> r.err, regs |-> rg]
        ELSE [err |-> NoError, regs |-> [rg EXCEPT ![name] = r.val]]

\* Registers.load_yml_config(settings, exclude_regs, exclude_fields): every
\* named register that is loaded and not excluded takes the given value
LoadYmlConfig(a, rg, settings, exclude) ==
    [n \in DOMAIN rg |->
        IF n \in DOMAIN settings /\ n \notin exclude THEN settings[n] ELSE rg[n]]

\* Registers.run_hooks(exclude): every register but the excluded ones is set
\* to its own value again, with the hooks (set_value(get_value(), raw=False))
RECURSIVE RunHooksOver(_, _, _)
RunHooksOver(a, rg, names) ==
    IF names = <<>> THEN [err |-> NoError, regs |-> rg]
    ELSE LET r == SetValue(a, rg, Head(names), GetValue(rg, Head(names)), FALSE)
         IN  IF r.err # NoError THEN r ELSE RunHooksOver(a, r.regs, Tail(names))

RunHooks(a, rg, exclude) == RunHooksOver(a, rg, RegistersExcept(a, exclude))

-----------------------------------------------------------------------------
(* BaseConfigArea.set_config *)

\* str.upper on the type names a configuration carries
Upper(t) == IF t = "cmpa" THEN "CMPA" ELSE IF t = "cfpa" THEN "CFPA" ELSE t

\* config.revision after lines 394-399: a missing or "latest" revision is
\* replaced by the latest revision of the device
ConfigRevision(config) ==
    IF config.revision = "" \/ config.revision = "latest" THEN LatestRevision
    ELSE config.revision

\* lines 390-410: the error the checks raise, if any
ConfigCheck(a, config) ==
    IF config.device # a.device THEN "SPSDKPfrConfigError"
    ELSE IF ConfigRevision(config) # a.revision THEN "SPSDKPfrConfigError"
    ELSE IF config.type # "" /\ Upper(config.type) # a.cls THEN "SPSDKPfrConfigError"
    ELSE IF DOMAIN config.settings = {} THEN "SPSDKPfrConfigError"
    ELSE NoError

\* lines 412-415: the registers load_yml_config must not touch
ComputedRegs(a, raw) ==
    IgnoredRegisters(a.cls, a.device)
        \cup (IF raw THEN {} ELSE ComputedRegisters(a.cls, a.device))

\* line 421 with the difference the other way round: the configured
\* registers are the excluded ones
ExcludeHooksConfigured(a, config) == GetRegNames(a) \cap DOMAIN config.settings

\* line 421: the registers whose hooks are not run
ExcludeHooks(a, config) == GetRegNames(a) \ DOMAIN config.settings

\* set_config with the settings loaded before the checks of lines 390-410
set_config_load_first(a, rg, config, raw) ==
    LET loaded == LoadYmlConfig(a, rg, config.settings, ComputedRegs(a, raw))
    IN  IF ConfigCheck(a, config) # NoError
        THEN [err |-> ConfigCheck(a, config), regs |-> loaded, hooks |-> {}]
        ELSE IF raw THEN [err |-> NoError, regs |-> loaded, hooks |-> {}]
        ELSE LET r == RunHooks(a, loaded, ExcludeHooks(a, config))
             IN  [err |-> r.err, regs |-> r.regs,
                  hooks |-> SeqRange(RegistersExcept(a, ExcludeHooks(a, config)))]

\* set_config(config, raw): the new registers, the error raised and the
\* registers handed to the hooks
set_config(a, rg, config, raw) ==
    IF ConfigCheck(a, config) # NoError
    THEN [err |-> ConfigCheck(a, config), regs |-> rg, hooks |-> {}]
    ELSE LET loaded == LoadYmlConfig(a, rg, config.settings, ComputedRegs(a, raw))
         IN  IF raw THEN [err |-> NoError, regs |-> loaded, hooks |-> {}]
             ELSE LET r == RunHooks(a, loaded, ExcludeHooks(a, config))
                  IN  [err |-> r.err, regs |-> r.regs,
                       hooks |-> SeqRange(RegistersExcept(a, ExcludeHooks(a, config)))]

-----------------------------------------------------------------------------
(* Public keys and the crypto backend *)

\* The numbers of a public key (e, n, x, y) are held as their shortest
\* big-endian byte strings, so that a 384-bit coordinate keeps its width.
RsaKey(e, n) ==
    [kind |-> "RSA", e |-> e, n |-> n, x |-> <<>>, y |-> <<>>, key_size |-> 2048]

EcKey(x, y, size) ==
    [kind |-> "EC", e |-> <<>>, n |-> <<>>, x |-> x, y |-> y, key_size |-> size]

\* the hash algorithms the backend knows by the name sha<width>
HashWidths == {1, 224, 256, 384, 512}

\* a stand-in for the backend's digest: a position-weighted checksum of the
\* data, seeded by the algorithm and the length, spread over width/8 bytes
RECURSIVE Mix(_, _, _)
Mix(data, lo, hi) ==
    IF lo > hi THEN 0
    ELSE IF lo = hi THEN (lo * (data[lo] + 1)) % 65521
    ELSE (Mix(data, lo, (lo + hi) \div 2) + Mix(data, (lo + hi) \div 2 + 1, hi)) % 65521

BackendHash(data, width) ==
    LET acc == (Mix(data, 1, Len(data)) + 131 * Len(data) + width) % 65521
    IN  AsSeq([j \in 1..(width \div 8) |->
            IF j = 1 THEN acc % 256 ELSE IF j = 2 THEN acc \div 256 ELSE (acc + 7 * j) % 256])

\* math.ceil(n.bit_length() / 8): the length of the shortest byte string
ByteLength(n) == Len(n)

\* n.to_bytes(len, "big") fits when n < 256^len, and raises OverflowError otherwise
FitsBytes(n, len) == Len(n) <= len

\* n.to_bytes(len, "big"): leading zero bytes up to len
ToBytesBig(n, len) == Zeros(len - Len(n)) \o n

\* calc_pub_key_hash hashing n1_bytes before n2_bytes
calc_pub_key_hash_n1_first(key, sha_width) ==
    LET n_1 == IF key.kind = "RSA" THEN key.e ELSE key.y
        n1_len == IF key.kind = "RSA" THEN ByteLength(key.e) ELSE sha_width \div 8
        n_2 == IF key.kind = "RSA" THEN key.n ELSE key.x
        n2_len == IF key.kind = "RSA" THEN ByteLength(key.n) ELSE sha_width \div 8
    IN  IF ~FitsBytes(n_1, n1_len) \/ ~FitsBytes(n_2, n2_len)
        THEN [err |-> "OverflowError", val |-> <<>>]
        ELSE IF sha_width \notin HashWidths
        THEN [err |-> "SPSDKError", val |-> <<>>]
        ELSE [err |-> NoError,
              val |-> BackendHash(ToBytesBig(n_1, n1_len) \o ToBytesBig(n_2, n2_len), sha_width)]

\* calc_pub_key_hash(public_key, backend, sha_width)
calc_pub_key_hash(key, sha_width) ==
    LET n_1 == IF key.kind = "RSA" THEN key.e ELSE key.y
        n1_len == IF key.kind = "RSA" THEN ByteLength(key.e) ELSE sha_width \div 8
        n_2 == IF key.kind = "RSA" THEN key.n ELSE key.x
        n2_len == IF key.kind = "RSA" THEN ByteLength(key.n) ELSE sha_width \div 8
    IN  IF ~FitsBytes(n_1, n1_len) \/ ~FitsBytes(n_2, n2_len)
        THEN [err |-> "OverflowError", val |-> <<>>]
        ELSE IF sha_width \notin HashWidths
        THEN [err |-> "SPSDKError", val |-> <<>>]
        ELSE [err |-> NoError,
              val |-> BackendHash(ToBytesBig(n_2, n2_len) \o ToBytesBig(n_1, n1_len), sha_width)]

-----------------------------------------------------------------------------
(* BaseConfigArea._calc_rotkh *)

\* lines 474-477
AlgorithmWidth(keys) == IF keys[1].kind = "RSA" THEN 256 ELSE keys[1].key_size

\* line 482: the hash of every key of the list
KeyHashes(keys, algorithm_width) ==
    AsSeq([i \in 1..Len(keys) |-> calc_pub_key_hash(keys[i], algorithm_width)])

\* lines 483-485 with one slot for every key instead of four slots
RotkhSlotsPerKey(key_hashes, algorithm_width) ==
    AsSeq([i \in 1..Max(4, Len(key_hashes)) |->
        IF i <= Len(key_hashes) THEN key_hashes[i].val ELSE Zeros(algorithm_width \div 8)])

\* lines 483-485: the four slots (Python's range(4) is 1..4 here)
RotkhSlots(key_hashes, algorithm_width) ==
    AsSeq([i \in 1..4 |->
        IF i <= Len(key_hashes) THEN key_hashes[i].val ELSE Zeros(algorithm_width \div 8)])

\* _calc_rotkh without the width check of lines 479-480
calc_rotkh_unchecked(width, keys) ==
    LET algorithm_width == AlgorithmWidth(keys)
        key_hashes == KeyHashes(keys, algorithm_width)
        failed == {i \in 1..Len(keys) : key_hashes[i].err # NoError}
    IN  IF failed # {}
        THEN [err |-> key_hashes[CHOOSE i \in failed : \A j \in failed : i <= j].err,
              val |-> <<>>]
        ELSE [err |-> NoError,
              val |-> Ljust(BackendHash(Join(RotkhSlots(key_hashes, algorithm_width)),
                                        algorithm_width),
                            width \div 8)]

\* _calc_rotkh(keys), for a ROTKH register of the given width
calc_rotkh(width, keys) ==
    LET algorithm_width == AlgorithmWidth(keys)
        key_hashes == KeyHashes(keys, algorithm_width)
        failed == {i \in 1..Len(keys) : key_hashes[i].err # NoError}
    IN  IF algorithm_width > width THEN [err |-> "SPSDKPfrError", val |-> <<>>]
        ELSE IF failed # {}
        THEN [err |-> key_hashes[CHOOSE i \in failed : \A j \in failed : i <= j].err,
              val |-> <<>>]
        ELSE [err |-> NoError,
              val |-> Ljust(BackendHash(Join(RotkhSlots(key_hashes, algorithm_width)),
                                        algorithm_width),
                            width \div 8)]

-----------------------------------------------------------------------------
(* BaseConfigArea.export and BaseConfigArea.parse *)

\* _get_registers: the loaded registers but the ignored ones, in order
GetRegisters(a) == RegistersExcept(a, IgnoredRegisters(a.cls, a.device))

\* the public keys handed to export and to _calc_rotkh
RsaKeyA == RsaKey(<<1, 0, 1>>, <<193, 211, 5, 9, 77, 31, 200, 3>>)

EcKey256 == EcKey(AsSeq([i \in 1..32 |-> 16 + i]), AsSeq([i \in 1..32 |-> 80 + i]), 256)

EcKey384 == EcKey(AsSeq([i \in 1..48 |-> 3 * i]), AsSeq([i \in 1..48 |-> 100 + i]), 384)

\* the keys handed to export in the configuration area machine
KeyPool == {RsaKeyA, EcKey384}

\* the key lists of at most n keys
SeqsUpTo(S, n) == UNION {[1..k -> S] : k \in 0..n}

ExportKeyLists == SeqsUpTo(KeyPool, MaxExportKeys)

\* the widths a ROTKH register has in the database
RotkhWidths == {256, 384}

\* _calc_rotkh for the key lists handed to export, computed once
RotkhOfExport ==
    [w \in RotkhWidths, ks \in ExportKeyLists \ {<<>>} |-> calc_rotkh(w, ks)] @@ <<>>

\* lines 516-525 with the ROTKH register cleared when no keys are given
ExportRotkhCleared(a, rg, keys) ==
    IF keys = <<>>
    THEN IF HasReg(a, ROTKH_REGISTER)
         THEN SetValue(a, rg, ROTKH_REGISTER, Zeros(RegDef(a, ROTKH_REGISTER).width \div 8), TRUE)
         ELSE [err |-> NoError, regs |-> rg]
    ELSE IF ~HasReg(a, ROTKH_REGISTER)
    THEN [err |-> "SPSDKPfrRotkhIsNotPresent", regs |-> rg]
    ELSE LET r == RotkhOfExport[RegDef(a, ROTKH_REGISTER).width, keys]
         IN  IF r.err # NoError THEN [err |-> r.err, regs |-> rg]
             ELSE SetValue(a, rg, ROTKH_REGISTER, r.val, TRUE)

\* lines 516-525 with a missing ROTKH register skipped in silence
ExportRotkhSkipped(a, rg, keys) ==
    IF keys = <<>> \/ ~HasReg(a, ROTKH_REGISTER) THEN [err |-> NoError, regs |-> rg]
    ELSE LET r == RotkhOfExport[RegDef(a, ROTKH_REGISTER).width, keys]
         IN  IF r.err # NoError THEN [err |-> r.err, regs |-> rg]
             ELSE SetValue(a, rg, ROTKH_REGISTER, r.val, TRUE)

\* lines 516-525: with keys, the ROTKH register takes the computed hash
ExportRotkh(a, rg, keys) ==
    IF keys = <<>> THEN [err |-> NoError, regs |-> rg]
    ELSE IF ~HasReg(a, ROTKH_REGISTER)
    THEN [err |-> "SPSDKPfrRotkhIsNotPresent", regs |-> rg]
    ELSE LET r == RotkhOfExport[RegDef(a, ROTKH_REGISTER).width, keys]
         IN  IF r.err # NoError THEN [err |-> r.err, regs |-> rg]
             ELSE SetValue(a, rg, ROTKH_REGISTER, r.val, TRUE)

\* the write of one value with the byte order chosen the other way round:
\* the value as it is without the reverse flag
WriteValueAsStored(data, offset, width, reverse, value) ==
    IF reverse /\ ~EndianOk(value) THEN [err |-> "SPSDKError", data |-> data]
    ELSE [err |-> NoError,
          data |-> SliceAssign(data, offset, offset + width \div 8,
                               IF reverse THEN ChangeEndianism(value) ELSE value)]

\* lines 532-537 and 539-542: one value written at its offset
WriteValue(data, offset, width, reverse, value) ==
    IF ~reverse /\ ~EndianOk(value) THEN [err |-> "SPSDKError", data |-> data]
    ELSE [err |-> NoError,
          data |-> SliceAssign(data, offset, offset + width \div 8,
                               IF reverse THEN value ELSE ChangeEndianism(value))]

\* lines 531-537: the sub-registers of a group, from the k-th on
RECURSIVE WriteSubRegs(_, _, _, _, _)
WriteSubRegs(data, rg, name, subs, k) ==
    IF k > Len(subs) THEN [err |-> NoError, data |-> data]
    ELSE LET r == WriteValue(data, subs[k].offset, subs[k].width, subs[k].reverse,
                             SubValue(rg, name, subs, k))
         IN  IF r.err # NoError THEN r ELSE WriteSubRegs(r.data, rg, name, subs, k + 1)

\* lines 528-542: the registers of the list, in order
RECURSIVE WriteRegisters(_, _, _, _)
WriteRegisters(data, a, rg, names) ==
    IF names = <<>> THEN [err |-> NoError, data |-> data]
    ELSE LET reg == RegDef(a, Head(names))
             r == IF reg.subs # <<>>
                  THEN WriteSubRegs(data, rg, Head(names), reg.subs, 1)
                  ELSE WriteValue(data, reg.offset, reg.width, reg.reverse,
                                  GetValue(rg, Head(names)))
         IN  IF r.err # NoError THEN r ELSE WriteRegisters(r.data, a, rg, Tail(names))

\* _get_seal_start_address: the offset of the first seal register
GetSealStartAddress(a) == RegDef(a, SealStartRegister(a.cls, a.device)).offset

\* _get_seal_count
GetSealCount(a) == SealCountOf(a.cls, a.device)

\* lines 544-547
WriteSeal(data, a) ==
    SliceAssign(data, GetSealStartAddress(a), GetSealStartAddress(a) + GetSealCount(a) * 4,
                Repeat(MARK, GetSealCount(a)))

\* lines 527-547 with the seal written before the registers
ExportBufferSealFirst(a, rg, add_seal) ==
    WriteRegisters(IF add_seal THEN WriteSeal(Zeros(BINARY_SIZE), a) ELSE Zeros(BINARY_SIZE),
                   a, rg, GetRegisters(a))

\* lines 527-547: the buffer, registers first and the seal after them
ExportBuffer(a, rg, add_seal) ==
    LET r == WriteRegisters(Zeros(BINARY_SIZE), a, rg, GetRegisters(a))
    IN  IF r.err # NoError \/ ~add_seal THEN r
        ELSE [err |-> NoError, data |-> WriteSeal(r.data, a)]

\* lines 549-552 without the assertion
ExportReturnUnchecked(data) == [err |-> NoError, has |-> TRUE, data |-> data]

\* lines 549-552: the length assertion and the return
ExportReturn(data) ==
    IF Len(data) # BINARY_SIZE THEN [err |-> "AssertionError", has |-> FALSE, data |-> <<>>]
    ELSE [err |-> NoError, has |-> TRUE, data |-> data]

\* export(add_seal, keys): the registers after the call, the error raised
\* and the bytes returned
export(a, rg, add_seal, keys) ==
    LET k == ExportRotkh(a, rg, keys)
        b == ExportBuffer(a, k.regs, add_seal)
    IN  IF k.err # NoError THEN [err |-> k.err, regs |-> k.regs, has |-> FALSE, data |-> <<>>]
        ELSE IF b.err # NoError
        THEN [err |-> b.err, regs |-> k.regs, has |-> FALSE, data |-> <<>>]
        ELSE [err |-> ExportReturn(b.data).err, regs |-> k.regs,
              has |-> ExportReturn(b.data).has, data |-> ExportReturn(b.data).data]

\* lines 559-561: the registers of the list read from data, in order
RECURSIVE ParseRegisters(_, _, _, _)
ParseRegisters(a, rg, data, names) ==
    IF names = <<>> THEN [err |-> NoError, regs |-> rg]
    ELSE LET reg == RegDef(a, Head(names))
             value == Slice(data, reg.offset, reg.offset + reg.width \div 8)
         IN  IF ~EndianOk(value) THEN [err |-> "SPSDKError", regs |-> rg]
             ELSE LET r == SetValue(a, rg, Head(names), ChangeEndianism(value), TRUE)
                  IN  IF r.err # NoError THEN r
                      ELSE ParseRegisters(a, r.regs, data, Tail(names))

\* parse(data)
parse(a, rg, data) == ParseRegisters(a, rg, data, GetRegisters(a))

-----------------------------------------------------------------------------
(* Inputs of the configuration area machine *)

\* 0x12345678: its high half is not the inverse of its low half
Word1 == <<18, 52, 86, 120>>

\* the registers of the area that carry a computed-field hook
Hooked(a) == {n \in SeqRange(SchemaNames(a)) : RegDef(a, n).hooks # <<>>}

\* the settings a user configuration may carry: none; the first register;
\* a hooked register, alone or with the first one; a computed or an
\* ignored register
SettingsOf(a) ==
    LET names == SeqRange(SchemaNames(a))
        first == SchemaNames(a)[1]
        skipped == IgnoredRegisters(a.cls, a.device) \cup ComputedRegisters(a.cls, a.device)
    IN  {<<>>, [n \in {first} |-> Word1]}
        \cup {[n \in {m} |-> Word1] : m \in Hooked(a)}
        \cup {[n \in {first, m} |-> Word1] : m \in Hooked(a)}
        \cup {[n \in {m} |-> Word1] : m \in names \cap skipped}

Config(dev, rev, type, settings) ==
    [device |-> dev, revision |-> rev, type |-> type, settings |-> settings]

\* the configurations handed to set_config: the ones that agree with the
\* area, with every settings mapping, and the ones that differ from them in
\* the device, the revision or the type
ConfigsOf(a) ==
    {Config(a.device, a.revision, "", s) : s \in SettingsOf(a)}
    \cup {Config(d, a.revision, "", [n \in {SchemaNames(a)[1]} |-> Word1]) :
            d \in {"lpc55s6x", "lpc55s3x"}}
    \cup {Config(a.device, r, "", [n \in {SchemaNames(a)[1]} |-> Word1]) :
            r \in {"", "latest", "0a", "1b"}}
    \cup {Config(a.device, a.revision, t, [n \in {SchemaNames(a)[1]} |-> Word1]) :
            t \in {"cmpa", "CFPA"}}

\* the configurations applied raw: no settings, a hooked register, a
\* computed register, and one of another device
RawConfigsOf(a) ==
    {c \in ConfigsOf(a) :
        /\ c.revision = a.revision
        /\ c.type = ""
        /\ DOMAIN c.settings \subseteq Hooked(a) \cup ComputedRegisters(a.cls, a.device)
        /\ \A n \in DOMAIN c.settings : c.settings[n] = Word1}
    \cup {c \in ConfigsOf(a) : c.device # a.device}

\* a binary image, and the lengths a truncated file may have
Pattern == AsSeq([i \in 1..BINARY_SIZE |-> (7 * i) % 256])

ParseLengths == {BINARY_SIZE, 482, 3}

NoOp ==
    [name |-> "init", err |-> NoError, raw |-> FALSE, device |-> "", revision |-> "",
     type |-> "", settings |-> <<>>, add_seal |-> FALSE, keys |-> <<>>, src |-> "none"]

NoRet == [has |-> FALSE, data |-> <<>>]

-----------------------------------------------------------------------------
(* The configuration area machine *)

\* a configuration area nobody calls
PfrIdle ==
    /\ area = [cls |-> "CMPA", device |-> "lpc55s6x", revision |-> "1b"]
    /\ regs = ResetRegs(area)
    /\ op = NoOp
    /\ ret = NoRet
    /\ hookRuns = {}

\* no run of generate_secure_binary
SbIdle == sbConf = <<>> /\ sb = <<>> /\ written = <<>>

\* no run of generate_secure_binary_21
BdIdle == bdArgs = <<>> /\ bd = <<>> /\ bdFiles = <<>> /\ bdEcho = <<>>

\* no run of generate_master_boot_image
MbiIdle == mbiConf = <<>> /\ mbi = <<>> /\ mbiOut = <<>>

ConfIdle == conf = <<>> /\ confArg = <<>> /\ confRet = <<>>

BcIdle == bcArgs = <<>> /\ bcOut = <<>>

\* BaseConfigArea.__init__ without a user configuration
InitPfr ==
    /\ area \in Areas
    /\ regs = ResetRegs(area)
    /\ op = NoOp
    /\ ret = NoRet
    /\ hookRuns = {}

SetConfig ==
    \E config \in ConfigsOf(area), raw \in BOOLEAN :
        LET r == set_config(area, regs, config, raw)
        IN  /\ raw => config \in RawConfigsOf(area)
            /\ regs' = r.regs
            /\ op' = [NoOp EXCEPT !.name = "set_config", !.err = r.err, !.raw = raw,
                                  !.device = config.device, !.revision = config.revision,
                                  !.type = config.type, !.settings = config.settings]
            /\ ret' = NoRet
            /\ hookRuns' = r.hooks
            /\ UNCHANGED <<area, rotkhVars, sbVars, bdVars, mbiVars, confVars, bcVars>>

Export ==
    \E add_seal \in BOOLEAN, keys \in ExportKeyLists :
        LET r == export(area, regs, add_seal, keys)
        IN  /\ regs' = r.regs
            /\ op' = [NoOp EXCEPT !.name = "export", !.err = r.err,
                                  !.add_seal = add_seal, !.keys = keys]
            /\ ret' = [has |-> r.has, data |-> r.data]
            /\ UNCHANGED <<area, hookRuns, rotkhVars, sbVars, bdVars, mbiVars, confVars, bcVars>>

\* parse of the bytes the preceding export returned
ParseExported ==
    /\ ret.has
    /\ LET r == parse(area, regs, ret.data)
       IN  /\ regs' = r.regs
           /\ op' = [NoOp EXCEPT !.name = "parse", !.err = r.err,
                                 !.add_seal = op.add_seal, !.keys = op.keys,
                                 !.src = "export"]
           /\ ret' = NoRet
           /\ UNCHANGED <<area, hookRuns, rotkhVars, sbVars, bdVars, mbiVars, confVars, bcVars>>

\* parse of a binary file, complete or truncated
ParseFile ==
    \E n \in ParseLengths :
        LET r == parse(area, regs, Slice(Pattern, 0, n))
        IN  /\ regs' = r.regs
            /\ op' = [NoOp EXCEPT !.name = "parse", !.err = r.err, !.src = "file"]
            /\ ret' = NoRet
            /\ UNCHANGED <<area, hookRuns, rotkhVars, sbVars, bdVars, mbiVars, confVars, bcVars>>

\* no call of _calc_rotkh alone
NoOut == [done |-> FALSE, err |-> NoError, val |-> <<>>]

RotkhIdle == rkKeys = <<>> /\ rkWidth = 0 /\ rkOut = NoOut

Init == InitPfr /\ RotkhIdle /\ SbIdle /\ BdIdle /\ MbiIdle /\ ConfIdle /\ BcIdle

Next == SetConfig \/ Export \/ ParseExported \/ ParseFile

Spec == Init /\ [][Next]_vars

-----------------------------------------------------------------------------
(* _calc_rotkh alone, over key lists longer than four *)

\* the keys handed to _calc_rotkh
RotkhKeyPool == {RsaKeyA, EcKey256, EcKey384}

\* export calls _calc_rotkh with a list of one key at least (line 516)
InitRotkh ==
    /\ rkKeys \in SeqsUpTo(RotkhKeyPool, MaxRotkhKeys) \ {<<>>}
    /\ rkWidth \in RotkhWidths
    /\ rkOut = NoOut
    /\ PfrIdle
    /\ SbIdle
    /\ BdIdle
    /\ MbiIdle /\ ConfIdle /\ BcIdle

CalcRotkh ==
    /\ ~rkOut.done
    /\ LET r == calc_rotkh(rkWidth, rkKeys)
       IN  rkOut' = [done |-> TRUE, err |-> r.err, val |-> r.val]
    /\ UNCHANGED <<rkKeys, rkWidth, pfrVars, sbVars, bdVars, mbiVars, confVars, bcVars>>

NextRotkh == CalcRotkh

SpecRotkh == InitRotkh /\ [][NextRotkh]_vars

-----------------------------------------------------------------------------
(* Secure Binary v3.1: the files and the helpers of generate_secure_binary *)

\* Python's None
None == "None"

HexChars == <<"0", "1", "2", "3", "4", "5", "6", "7", "8", "9", "a", "b", "c", "d", "e", "f">>

IsHex(c) == \E i \in 1..16 : HexChars[i] = c

HexVal(c) == (CHOOSE i \in 1..16 : HexChars[i] = c) - 1

IsDec(c) == IsHex(c) /\ HexVal(c) < 10

RECURSIVE DigitsValue(_, _)
DigitsValue(text, base) ==
    IF text = <<>> THEN 0
    ELSE DigitsValue(SubSeq(text, 1, Len(text) - 1), base) * base + HexVal(text[Len(text)])

\* int(text, 0) over digits: a 0x prefix reads hexadecimal, no prefix reads
\* decimal (without a leading zero), anything else is a ValueError
ParseInt0(text) ==
    IF Len(text) > 2 /\ text[1] = "0" /\ text[2] = "x" /\ \A i \in 3..Len(text) : IsHex(text[i])
    THEN [err |-> NoError, val |-> DigitsValue(SubSeq(text, 3, Len(text)), 16)]
    ELSE IF /\ text # <<>>
            /\ \A i \in 1..Len(text) : IsDec(text[i])
            /\ (Len(text) = 1 \/ text[1] # "0")
    THEN [err |-> NoError, val |-> DigitsValue(text, 10)]
    ELSE [err |-> "ValueError", val |-> 0]

\* bytes.fromhex(text)
FromHex(text) ==
    IF Len(text) % 2 = 0 /\ \A i \in 1..Len(text) : IsHex(text[i])
    THEN [err |-> NoError,
          val |-> AsSeq([i \in 1..(Len(text) \div 2) |->
                    16 * HexVal(text[2 * i - 1]) + HexVal(text[2 * i])])]
    ELSE [err |-> "ValueError", val |-> <<>>]

\* n.to_bytes(4, "little") and n.to_bytes(8, "little")
LE32(n) ==
    <<n % 256, (n \div 256) % 256, (n \div 65536) % 256, ((n \div 65536) \div 256) % 256>>

LE64(n) == LE32(n) \o LE32((n \div 65536) \div 65536)

\* the files the configurations name: a key in hexadecimal text, two
\* signing keys (the first byte tells the curve), certificates
FileText == [p \in {"pck.txt"} |-> <<"0", "a", "f", "f", "1", "0", "2", "b">>]

FileBinary ==
    [p \in {"k256.pem", "k384.pem", "root0.crt", "root1.crt", "isk.crt", "root0.pem"} |->
        CASE p = "k256.pem" -> <<1, 41, 42, 43>>
          [] p = "k384.pem" -> <<2, 51, 52, 53>>
          [] p = "root0.crt" -> <<48, 130, 1, 10>>
          [] p = "root1.crt" -> <<48, 130, 1, 11>>
          [] p = "isk.crt" -> <<48, 130, 2, 20>>
          [] p = "root0.pem" -> <<1, 61, 62, 63>>]

\* the digest width of a curve
CurveWidth(curve_name) == IF curve_name = "secp256r1" THEN 256 ELSE 384

\* the curve of a private key
KeyWidth(private_key_data) == IF private_key_data[1] = 1 THEN 256 ELSE 384

\* an ECDSA signature of the data with the key and a nonce: r and s, each
\* as long as the digest of the key's curve
EccSignature(private_key_data, data, nonce) ==
    LET w == KeyWidth(private_key_data)
    IN  BackendHash(<<nonce>> \o private_key_data, w)
            \o BackendHash(<<nonce>> \o private_key_data \o BackendHash(data, w), w)

Nonces == {1, 2}

\* internal_backend.ecc_sign: a signature with a fresh nonce or, with a
\* defective backend, bytes that are no signature of the data
EccSign(private_key_data, data) ==
    {EccSignature(private_key_data, data, k) : k \in Nonces}
        \cup {Zeros(2 * (KeyWidth(private_key_data) \div 8))}

\* internal_backend.ecc_verify
EccVerify(private_key_data, signature, data) ==
    \E k \in Nonces : signature = EccSignature(private_key_data, data, k)

\* the commands of the configuration, compiled by get_cmd_from_json
CommandErase == <<1, 0, 0, 16>>

CommandLoad == <<2, 0, 0, 32, 222, 173>>

\* the key of an encrypted command block
BlockKey(pck, timestamp, kdk_access_rights) ==
    BackendHash(pck \o LE64(timestamp) \o LE32(kdk_access_rights), 256)

Encrypt(data, key) ==
    AsSeq([i \in 1..Len(data) |-> (data[i] + key[((i - 1) % Len(key)) + 1]) % 256])

\* SecureBinary31Commands.export: one data block for a command, each block
\* carrying its number, the hash of the block that follows it (zeros in the
\* last block) and the command, encrypted or plain
RECURSIVE CommandBlocks(_, _, _, _)
CommandBlocks(commands, k, width, key) ==
    IF k > Len(commands) THEN <<>>
    ELSE LET rest == CommandBlocks(commands, k + 1, width, key)
             next_hash == IF rest = <<>> THEN Zeros(width \div 8)
                          ELSE BackendHash(rest[1], width)
             body == IF key = <<>> THEN commands[k] ELSE Encrypt(commands[k], key)
         IN  <<LE32(k) \o next_hash \o body>> \o rest

\* the command block of the build: its bytes, final_hash and block_count
SecureBinary31Commands(curve_name, is_encrypted, kdk_access_rights, pck, timestamp, commands) ==
    LET width == CurveWidth(curve_name)
        key == IF is_encrypted THEN BlockKey(pck, timestamp, kdk_access_rights) ELSE <<>>
        blocks == CommandBlocks(commands, 1, width, key)
    IN  [data |-> Join(blocks),
         final_hash |-> IF blocks = <<>> THEN BackendHash(<<>>, width)
                        ELSE BackendHash(blocks[1], width),
         block_count |-> Len(blocks)]

\* CertBlockV31.export: a header, the root certificates' table and, with
\* an image signing key, its certificate signed by the root key
CertBlockV31Export(root_certs, used_root_cert, user_data, constraints, isk_cert, ca_flag, isk_private_key) ==
    <<99, 104, 100, 114>>
        \o <<IF ca_flag THEN 128 ELSE 0, used_root_cert, Len(root_certs), constraints>>
        \o Join(AsSeq([i \in 1..Len(root_certs) |-> BackendHash(root_certs[i], 256)]))
        \o (IF ca_flag THEN <<>>
            ELSE isk_cert \o user_data
                 \o EccSignature(isk_private_key, isk_cert \o user_data, 1))

\* SecureBinary31Header: the size of the exported header
HEADER_SIZE == 60

\* SecureBinary31Header.export
SecureBinary31HeaderExport(h) ==
    <<115, 98, 118, 51>> \o <<1, 0, 3, 0>> \o LE32(0)
        \o LE32(h.block_count) \o LE32(4 + CurveWidth(h.curve_name) \div 8 + 256)
        \o LE64(h.timestamp) \o LE32(h.firmware_version)
        \o LE32(h.image_total_length)
        \o LE32(IF h.is_nxp_container THEN 7 ELSE 6)
        \o LE32(HEADER_SIZE + CurveWidth(h.curve_name) \div 8)
        \o Ljust(h.description, 16)

-----------------------------------------------------------------------------
(* generate_secure_binary, statement by statement *)

\* the timestamps a configuration carries: none, a number, a number in
\* text, a calendar date in text
Timestamps ==
    {[kind |-> "none", num |-> 0, text |-> <<>>],
     [kind |-> "int", num |-> 16, text |-> <<>>],
     [kind |-> "str", num |-> 0, text |-> <<"0", "x", "1", "0">>],
     [kind |-> "str", num |-> 0, text |-> <<"2", "0", "2", "1", "-", "0", "1">>]}

\* the seconds since 1 January 2000 that datetime.now() may give
Clock == {690000000, 690000001}

\* the command lists of the configurations: erase, load, erase, ...
CommandLists ==
    {AsSeq([i \in 1..n |-> IF i % 2 = 1 THEN CommandErase ELSE CommandLoad]) :
        n \in 0..MaxCommands}

\* SB31Config of the configuration files given to the build
SbConfigs ==
    {[main_curve_name |-> curve,
      is_encrypted |-> enc[1],
      container_keyblob_enc_key_path |-> enc[2],
      kdk_access_rights |-> 3,
      timestamp |-> ts,
      commands |-> cmds,
      root_certs |-> <<"root0.crt", "root1.crt">>,
      main_root_cert_id |-> 0,
      use_isk |-> isk[1],
      isk_sign_data_path |-> None,
      main_root_private_key_file |-> isk[2],
      isk_certificate |-> isk[3],
      isk_constraint |-> 0,
      firmware_version |-> 1,
      description |-> <<83, 66>>,
      is_nxp_container |-> FALSE,
      main_signing_key |-> key,
      container_output |-> "out.sb3"] :
        curve \in {"secp256r1", "secp384r1"},
        enc \in {<<FALSE, None>>, <<TRUE, "pck.txt">>, <<TRUE, None>>},
        ts \in Timestamps,
        cmds \in CommandLists,
        isk \in {<<FALSE, None, None>>, <<TRUE, "root0.pem", "isk.crt">>,
                 <<TRUE, "root0.pem", None>>},
        key \in {None, "k256.pem", "k384.pem"}}

NoVerify == [called |-> FALSE, signature |-> <<>>, data |-> <<>>]

\* the locals of generate_secure_binary before its first statement
SbLocals ==
    [pc |-> "config", err |-> NoError, timestamp |-> 0,
     commands_data |-> <<>>, final_hash |-> <<>>, block_count |-> 0,
     data_cb |-> <<>>, image_total_length |-> 0, sb_header_data |-> <<>>,
     final_data |-> <<>>, private_key_data |-> <<>>, data_to_sign |-> <<>>,
     signature |-> <<>>, verified |-> NoVerify]

Raise(s, err) == [s EXCEPT !.pc = "failed", !.err = err]

InitSB31 ==
    /\ sbConf \in SbConfigs
    /\ sb = SbLocals
    /\ written = <<>>
    /\ PfrIdle
    /\ RotkhIdle
    /\ BdIdle
    /\ MbiIdle /\ ConfIdle /\ BcIdle

\* lines 321-329: the configuration and the timestamp
SbConfig ==
    /\ sb.pc = "config"
    /\ \E now \in Clock :
          LET ts == sbConf.timestamp
              parsed == ParseInt0(ts.text)
          IN  sb' = IF ts.kind = "none" THEN [sb EXCEPT !.pc = "commands", !.timestamp = now]
                    ELSE IF ts.kind = "int"
                    THEN [sb EXCEPT !.pc = "commands", !.timestamp = ts.num]
                    ELSE IF parsed.err # NoError THEN Raise(sb, parsed.err)
                    ELSE [sb EXCEPT !.pc = "commands", !.timestamp = parsed.val]
    /\ UNCHANGED <<sbConf, written, pfrVars, rotkhVars, bdVars, mbiVars, confVars, bcVars>>

\* lines 331-349: the command block
SbCommands ==
    /\ sb.pc = "commands"
    /\ LET path == sbConf.container_keyblob_enc_key_path
           pck == IF sbConf.is_encrypted /\ path # None
                  THEN FromHex(FileText[path]) ELSE [err |-> NoError, val |-> <<>>]
           block == SecureBinary31Commands(sbConf.main_curve_name, sbConf.is_encrypted,
                        sbConf.kdk_access_rights, pck.val, sb.timestamp, sbConf.commands)
       IN  sb' = IF sbConf.is_encrypted /\ path = None THEN Raise(sb, "AssertionError")
                 ELSE IF pck.err # NoError THEN Raise(sb, pck.err)
                 ELSE [sb EXCEPT !.pc = "cert_block", !.commands_data = block.data,
                                 !.final_hash = block.final_hash,
                                 !.block_count = block.block_count]
    /\ UNCHANGED <<sbConf, written, pfrVars, rotkhVars, bdVars, mbiVars, confVars, bcVars>>

\* _get_cert_block_v31 and the export of the certificate block
GetCertBlockV31(config) ==
    LET root_certs == AsSeq([i \in 1..Len(config.root_certs) |->
                            FileBinary[config.root_certs[i]]])
        user_data == IF config.use_isk /\ config.isk_sign_data_path # None
                     THEN FileBinary[config.isk_sign_data_path] ELSE <<>>
    IN  IF config.use_isk /\ config.main_root_private_key_file = None
        THEN [err |-> "AssertionError", data |-> <<>>]
        ELSE IF config.use_isk /\ config.isk_certificate = None
        THEN [err |-> "AssertionError", data |-> <<>>]
        ELSE [err |-> NoError,
              data |-> CertBlockV31Export(root_certs, config.main_root_cert_id, user_data,
                          config.isk_constraint,
                          IF config.use_isk THEN FileBinary[config.isk_certificate] ELSE <<>>,
                          ~config.use_isk,
                          IF config.use_isk
                          THEN FileBinary[config.main_root_private_key_file] ELSE <<>>)]

\* lines 351-353
SbCertBlock ==
    /\ sb.pc = "cert_block"
    /\ LET cb == GetCertBlockV31(sbConf)
       IN  sb' = IF cb.err # NoError THEN Raise(sb, cb.err)
                 ELSE [sb EXCEPT !.pc = "header", !.data_cb = cb.data]
    /\ UNCHANGED <<sbConf, written, pfrVars, rotkhVars, bdVars, mbiVars, confVars, bcVars>>

\* the length the header would announce with a signature as long as one
\* hash of the command block
ImageTotalLengthOneHash(final_hash, data_cb) ==
    HEADER_SIZE + (Len(final_hash) + Len(data_cb)) + Len(final_hash)

\* lines 361-364: the length the header announces
ImageTotalLength(final_hash, data_cb) ==
    HEADER_SIZE + (Len(final_hash) + Len(data_cb)) + 2 * Len(final_hash)

\* lines 355-370: the header, then the hash of the command block and the
\* certificate block
SbHeader ==
    /\ sb.pc = "header"
    /\ LET total == ImageTotalLength(sb.final_hash, sb.data_cb)
           header == SecureBinary31HeaderExport(
                        [firmware_version |-> sbConf.firmware_version,
                         description |-> sbConf.description,
                         curve_name |-> sbConf.main_curve_name,
                         timestamp |-> sb.timestamp,
                         is_nxp_container |-> sbConf.is_nxp_container,
                         block_count |-> sb.block_count,
                         image_total_length |-> total])
       IN  sb' = [sb EXCEPT !.pc = "sign", !.image_total_length = total,
                            !.sb_header_data = header,
                            !.final_data = header \o sb.final_hash \o sb.data_cb]
    /\ UNCHANGED <<sbConf, written, pfrVars, rotkhVars, bdVars, mbiVars, confVars, bcVars>>

\* lines 372-376: the signature of the data so far
SbSign ==
    /\ sb.pc = "sign"
    /\ IF sbConf.main_signing_key = None
       THEN sb' = Raise(sb, "AssertionError")
       ELSE LET private_key_data == FileBinary[sbConf.main_signing_key]
            IN  \E signature \in EccSign(private_key_data, sb.final_data) :
                    sb' = [sb EXCEPT !.pc = "verify",
                                     !.private_key_data = private_key_data,
                                     !.data_to_sign = sb.final_data,
                                     !.signature = signature]
    /\ UNCHANGED <<sbConf, written, pfrVars, rotkhVars, bdVars, mbiVars, confVars, bcVars>>

\* lines 377-379 with the command block appended before the signature
VerifyAndAppendCommandsFirst(s) ==
    IF ~EccVerify(s.private_key_data, s.signature, s.data_to_sign)
    THEN [Raise(s, "AssertionError") EXCEPT
              !.verified = [called |-> TRUE, signature |-> s.signature,
                            data |-> s.data_to_sign]]
    ELSE [s EXCEPT !.pc = "write",
                   !.verified = [called |-> TRUE, signature |-> s.signature,
                                 data |-> s.data_to_sign],
                   !.final_data = s.final_data \o s.commands_data \o s.signature]

\* lines 377-379 without the assertion
VerifyAndAppendUnchecked(s) ==
    [s EXCEPT !.pc = "write",
              !.verified = [called |-> TRUE, signature |-> s.signature,
                            data |-> s.data_to_sign],
              !.final_data = s.final_data \o s.signature \o s.commands_data]

\* lines 377-379: the assertion on the signature, then the signature and
\* the command block are appended
VerifyAndAppend(s) ==
    IF ~EccVerify(s.private_key_data, s.signature, s.data_to_sign)
    THEN [Raise(s, "AssertionError") EXCEPT
              !.verified = [called |-> TRUE, signature |-> s.signature,
                            data |-> s.data_to_sign]]
    ELSE [s EXCEPT !.pc = "write",
                   !.verified = [called |-> TRUE, signature |-> s.signature,
                                 data |-> s.data_to_sign],
                   !.final_data = s.final_data \o s.signature \o s.commands_data]

SbVerify ==
    /\ sb.pc = "verify"
    /\ sb' = VerifyAndAppend(sb)
    /\ UNCHANGED <<sbConf, written, pfrVars, rotkhVars, bdVars, mbiVars, confVars, bcVars>>

\* line 381: write_file
SbWrite ==
    /\ sb.pc = "write"
    /\ written' = Append(written, [path |-> sbConf.container_output, data |-> sb.final_data])
    /\ sb' = [sb EXCEPT !.pc = "done"]
    /\ UNCHANGED <<sbConf, pfrVars, rotkhVars, bdVars, mbiVars, confVars, bcVars>>

NextSB31 ==
    SbConfig \/ SbCommands \/ SbCertBlock \/ SbHeader \/ SbSign \/ SbVerify \/ SbWrite

SpecSB31 == InitSB31 /\ [][NextSB31]_vars

-----------------------------------------------------------------------------
(* Secure Binary v2.1: the files, the parsed command script and the classes *)
(* generate_secure_binary_21 builds the image with                          *)

\* kek_key_file.readline(): the text up to the first line end, with it
ReadLine(text) ==
    IF \E i \in 1..Len(text) : text[i] = "\n"
    THEN SubSeq(text, 1, CHOOSE i \in 1..Len(text) :
                            text[i] = "\n" /\ \A j \in 1..(i - 1) : text[j] # "\n")
    ELSE text

\* bytes.fromhex(text): white space is skipped
FromHexText(text) == FromHex(SelectSeq(text, LAMBDA c : c \notin {"\n", " "}))

\* the key files: 64 hexadecimal digits and a line end; a note in words
KekText ==
    [p \in {"kek.txt", "notes.txt"} |->
        IF p = "kek.txt"
        THEN AsSeq([i \in 1..64 |-> HexChars[((7 * i) % 16) + 1]]) \o <<"\n">>
        ELSE <<"k", "e", "y", "\n">>]

\* the private key and the certificates; cert0.der is root0.der
Sb21Binary ==
    [p \in {"k0.pem", "cert0.der", "certx.der", "root0.der", "root1.der", "root2.der",
            "root3.der", "root4.der", "root5.der"} |->
        CASE p = "k0.pem" -> <<45, 45, 107, 48>>
          [] p = "cert0.der" -> <<48, 130, 3, 0>>
          [] p = "certx.der" -> <<48, 130, 3, 9>>
          [] p = "root0.der" -> <<48, 130, 3, 0>>
          [] p = "root1.der" -> <<48, 130, 3, 1>>
          [] p = "root2.der" -> <<48, 130, 3, 2>>
          [] p = "root3.der" -> <<48, 130, 3, 3>>
          [] p = "root4.der" -> <<48, 130, 3, 4>>
          [] p = "root5.der" -> <<48, 130, 3, 5>>]

\* A path is the sequence of its components from the root; Python's None
\* for a path argument is the empty sequence.
NoPath == <<>>

\* os.getcwd()
Getcwd == <<"work">>

\* the directories that exist: the working directory and out/ in it
IsDirectory(path) == path \in {<<"work">>, <<"work", "out">>}

\* os.path.join(directory, name)
PathJoin(directory, name) == Append(directory, name)

\* the last component of a path
FileName(path) == path[Len(path)]

\* open(path, "wb"): the error it raises, if any
OpenForWrite(path) ==
    IF IsDirectory(path) THEN "IsADirectoryError"
    ELSE IF path = <<>> \/ ~IsDirectory(SubSeq(path, 1, Len(path) - 1))
    THEN "FileNotFoundError"
    ELSE NoError

\* the commands elf2sb_helper21.get_command knows
KnownCommands == {"load", "fill", "erase", "enable", "encrypt", "keywrap"}

\* a command record of the parsed script: a dictionary key -> parameters,
\* held as the sequence of its items
Cmd(key, address) == <<[key |-> key, value |-> [address |-> address, keyblobs |-> <<>>]]>>

\* the parsed scripts: none (the parser gave up), no section, one section,
\* two sections with the same identifier, a section after one with an
\* unknown command, an unknown command after a known one in one record,
\* one without componentVersion and with buildNumber 0, one with an empty
\* productVersion and buildNumber -1; an option is given or not
AllOptions ==
    [productVersion |-> [given |-> TRUE, value |-> "2.3.4"],
     componentVersion |-> [given |-> TRUE, value |-> "5.6.7"],
     buildNumber |-> [given |-> TRUE, value |-> 8]]

NoOptions ==
    [productVersion |-> [given |-> FALSE, value |-> ""],
     componentVersion |-> [given |-> FALSE, value |-> ""],
     buildNumber |-> [given |-> FALSE, value |-> 0]]

\* options.get(key, default)
OptionGet(options, key, default) ==
    IF options[key].given THEN options[key].value ELSE default

Script(options, sections) ==
    [is_none |-> FALSE, options |-> options, keyblobs |-> <<[keyblob_id |-> 0]>>,
     sections |-> sections]

\* parser.parse gave None
NoScript == [is_none |-> TRUE, options |-> NoOptions, keyblobs |-> <<>>, sections |-> <<>>]

Section(id, commands) == [section_id |-> id, commands |-> commands]

ParsedScripts ==
    {NoScript,
     Script(NoOptions, <<>>),
     Script(AllOptions, <<Section(0, <<Cmd("erase", 0), Cmd("load", 4096)>>)>>),
     Script(NoOptions, <<Section(1, <<Cmd("load", 4096)>>),
                         Section(1, <<Cmd("encrypt", 0), Cmd("enable", 8)>>)>>),
     Script(AllOptions, <<Section(0, <<Cmd("load", 4096)>>),
                          Section(1, <<Cmd("jump", 0)>>),
                          Section(2, <<Cmd("erase", 0)>>)>>),
     Script(AllOptions, <<Section(3, <<Cmd("fill", 16) \o Cmd("bogus", 0),
                                      Cmd("erase", 0)>>)>>),
     Script([AllOptions EXCEPT !.componentVersion = NoOptions.componentVersion,
                               !.buildNumber.value = 0],
            <<Section(0, <<Cmd("load", 4096)>>)>>),
     Script([AllOptions EXCEPT !.productVersion.value = "", !.buildNumber.value = -1],
            <<Section(0, <<Cmd("load", 4096)>>)>>)}

\* lines 261-280: the commands of one section, record by record and item
\* by item; an unknown key ends the compilation with the helper's error
RECURSIVE CompileItems(_, _, _)
CompileItems(items, k, keyblobs) ==
    IF k > Len(items) THEN [err |-> NoError, commands |-> <<>>]
    ELSE IF items[k].key \notin KnownCommands
    THEN [err |-> "SPSDKError", commands |-> <<>>]
    ELSE LET value == IF items[k].key \in {"keywrap", "encrypt"}
                      THEN [items[k].value EXCEPT !.keyblobs = keyblobs]
                      ELSE items[k].value
             rest == CompileItems(items, k + 1, keyblobs)
         IN  IF rest.err # NoError THEN rest
             ELSE [err |-> NoError,
                   commands |-> <<[key |-> items[k].key, value |-> value]>> \o rest.commands]

RECURSIVE CompileCommands(_, _, _)
CompileCommands(records, k, keyblobs) ==
    IF k > Len(records) THEN [err |-> NoError, commands |-> <<>>]
    ELSE LET first == CompileItems(records[k], 1, keyblobs)
             rest == CompileCommands(records, k + 1, keyblobs)
         IN  IF first.err # NoError THEN first
             ELSE IF rest.err # NoError THEN rest
             ELSE [err |-> NoError, commands |-> first.commands \o rest.commands]

\* lines 261-280 with a command of an unknown key left out
RECURSIVE CompileSectionsSkipping(_, _, _)
CompileSectionsSkipping(bd_sections, k, keyblobs) ==
    IF k > Len(bd_sections) THEN [err |-> NoError, sb_sections |-> <<>>]
    ELSE LET known == [i \in 1..Len(bd_sections[k].commands) |->
                          SelectSeq(bd_sections[k].commands[i],
                                    LAMBDA item : item.key \in KnownCommands)]
             c == CompileCommands(known, 1, keyblobs)
             rest == CompileSectionsSkipping(bd_sections, k + 1, keyblobs)
         IN  [err |-> NoError,
              sb_sections |-> <<[uid |-> bd_sections[k].section_id,
                                 commands |-> c.commands]>> \o rest.sb_sections]

\* lines 261-280 with the sections of one identifier merged
RECURSIVE CompileSectionsMerging(_, _, _)
CompileSectionsMerging(bd_sections, k, keyblobs) ==
    IF k > Len(bd_sections) THEN [err |-> NoError, sb_sections |-> <<>>]
    ELSE LET c == CompileCommands(bd_sections[k].commands, 1, keyblobs)
             rest == CompileSectionsMerging(bd_sections, k + 1, keyblobs)
             uid == bd_sections[k].section_id
         IN  IF c.err # NoError THEN [err |-> c.err, sb_sections |-> <<>>]
             ELSE IF rest.err # NoError THEN rest
             ELSE IF rest.sb_sections # <<>> /\ rest.sb_sections[1].uid = uid
             THEN [err |-> NoError,
                   sb_sections |-> <<[uid |-> uid,
                                      commands |-> c.commands \o rest.sb_sections[1].commands]>>
                                   \o Tail(rest.sb_sections)]
             ELSE [err |-> NoError,
                   sb_sections |-> <<[uid |-> uid, commands |-> c.commands]>>
                                   \o rest.sb_sections]

\* lines 261-280: one BootSectionV2 for a section of the script, from the
\* k-th on
RECURSIVE CompileSections(_, _, _)
CompileSections(bd_sections, k, keyblobs) ==
    IF k > Len(bd_sections) THEN [err |-> NoError, sb_sections |-> <<>>]
    ELSE LET c == CompileCommands(bd_sections[k].commands, 1, keyblobs)
             rest == CompileSections(bd_sections, k + 1, keyblobs)
         IN  IF c.err # NoError THEN [err |-> c.err, sb_sections |-> <<>>]
             ELSE IF rest.err # NoError THEN rest
             ELSE [err |-> NoError,
                   sb_sections |-> <<[uid |-> bd_sections[k].section_id,
                                      commands |-> c.commands]>> \o rest.sb_sections]

\* CertBlockV2(build_number): no certificate, four empty root key hashes
CertBlockV2(build_number) ==
    [build_number |-> build_number, certificates |-> <<>>,
     root_key_hashes |-> AsSeq([i \in 1..4 |-> Zeros(32)])]

\* the hash of the public key of a certificate
CertificateKeyHash(cert_data) == BackendHash(cert_data, 256)

\* CertBlockV2.add_certificate
AddCertificate(cert_block, cert_data) ==
    [cert_block EXCEPT !.certificates = Append(@, cert_data)]

\* CertBlockV2.set_root_key_hash(index, certificate): the table has the
\* indices 0..3, another index is an error of the certificate block
SetRootKeyHash(cert_block, index, cert_data) ==
    IF index \notin 0..3 THEN [err |-> "SPSDKError", cert_block |-> cert_block]
    ELSE [err |-> NoError,
          cert_block |-> [cert_block EXCEPT
                             !.root_key_hashes[index + 1] = CertificateKeyHash(cert_data)]]

\* CertBlockV2.rkht: the hash of the table of root key hashes
Rkht(cert_block) == BackendHash(Join(cert_block.root_key_hashes), 256)

\* lines 292-295
RECURSIVE AddCertificates(_, _, _)
AddCertificates(cert_block, paths, k) ==
    IF k > Len(paths) THEN cert_block
    ELSE AddCertificates(AddCertificate(cert_block, Sb21Binary[FileName(paths[k])]),
                         paths, k + 1)

\* lines 296-298 over the first four certificates only
RECURSIVE SetRootKeyHashesCapped(_, _, _)
SetRootKeyHashesCapped(cert_block, paths, k) ==
    IF k > Len(paths) \/ k > 4 THEN [err |-> NoError, cert_block |-> cert_block]
    ELSE LET r == SetRootKeyHash(cert_block, k - 1, Sb21Binary[FileName(paths[k])])
         IN  IF r.err # NoError THEN r
             ELSE SetRootKeyHashesCapped(r.cert_block, paths, k + 1)

\* lines 296-298: enumerate(root_key_certificate_paths), from the k-th
\* path on (cert_idx is k - 1)
RECURSIVE SetRootKeyHashes(_, _, _)
SetRootKeyHashes(cert_block, paths, k) ==
    IF k > Len(paths) THEN [err |-> NoError, cert_block |-> cert_block]
    ELSE LET r == SetRootKeyHash(cert_block, k - 1, Sb21Binary[FileName(paths[k])])
         IN  IF r.err # NoError THEN r
             ELSE SetRootKeyHashes(r.cert_block, paths, k + 1)

\* the bytes of a compiled command and of a boot section
CommandBytes(cmd) ==
    <<CHOOSE i \in 1..6 :
        <<"load", "fill", "erase", "enable", "encrypt", "keywrap">>[i] = cmd.key>>
        \o LE32(cmd.value.address) \o <<Len(cmd.value.keyblobs)>>

SectionBytes(section) ==
    LE32(section.uid) \o LE32(Len(section.commands))
        \o Join(AsSeq([i \in 1..Len(section.commands) |-> CommandBytes(section.commands[i])]))

\* BootImageV21.export: the image needs a certificate, and a root key hash
\* for the first certificate of the chain; its bytes are the header with
\* the versions, the sections encrypted with the key-encryption key, the
\* certificate block and the signature made with the private key
BootImageV21Export(image) ==
    LET cb == image.cert_block
        plain == Join(AsSeq([i \in 1..Len(image.sections) |->
                        SectionBytes(image.sections[i])]))
        body == IF plain = <<>> THEN <<>> ELSE Encrypt(plain, image.kek)
        block == Join(cb.certificates) \o Join(cb.root_key_hashes)
    IN  IF cb.certificates = <<>>
           \/ \A i \in 1..Len(cb.root_key_hashes) :
                 cb.root_key_hashes[i] # CertificateKeyHash(cb.certificates[1])
        THEN [err |-> "SPSDKError", data |-> <<>>]
        ELSE [err |-> NoError,
              data |-> <<83, 84, 77, 80>> \o LE32(image.build_number)
                       \o LE32(Len(image.sections)) \o body \o block
                       \o BackendHash(image.private_key_pem_data \o body \o block, 256)]

-----------------------------------------------------------------------------
(* main with -c, and generate_secure_binary_21 *)

\* the most root key certificates on a command line
MaxRootCerts == 5

RootNames == <<"root0.der", "root1.der", "root2.der", "root3.der", "root4.der", "root5.der">>

\* a tuple of paths of a repeated option, and None for a list argument
PathList(paths) == [is_none |-> FALSE, paths |-> paths]

NoneList == [is_none |-> TRUE, paths |-> <<>>]

RootCerts(n) == PathList(AsSeq([i \in 1..n |-> <<"work", RootNames[i]>>]))

\* the command line of the test: every option given, four root key
\* certificates, the signing certificate being the first of them
CompleteArgs ==
    [chip_family |-> "lpc55s3x",
     output |-> <<"work", "out", "image.sb2">>,
     key |-> <<"work", "kek.txt">>,
     pkey |-> <<"work", "k0.pem">>,
     cert |-> PathList(<<<<"work", "cert0.der">>>>),
     root_key_cert |-> RootCerts(4),
     hash_of_hashes |-> <<"work", "out", "hash.bin">>,
     script |-> Script(AllOptions, <<Section(0, <<Cmd("erase", 0), Cmd("load", 4096)>>)>>)]

ArgFields ==
    {"chip_family", "output", "key", "pkey", "cert", "root_key_cert", "hash_of_hashes",
     "script"}

AllArgs ==
    [chip_family : {"lpc55s3x", "lpc55s6x"},
     output : {NoPath, <<"work", "out", "image.sb2">>, <<"work", "nodir", "image.sb2">>},
     key : {NoPath, <<"work", "kek.txt">>, <<"work", "notes.txt">>},
     pkey : {NoPath, <<"work", "k0.pem">>},
     cert : {NoneList, PathList(<<>>), PathList(<<<<"work", "cert0.der">>>>),
             PathList(<<<<"work", "certx.der">>>>)},
     root_key_cert : {NoneList} \cup {RootCerts(n) : n \in 0..MaxRootCerts},
     hash_of_hashes : {NoPath, <<"work", "out", "hash.bin">>},
     script : ParsedScripts]

\* click gives a tuple for a repeated option, so a list is None only when
\* generate_secure_binary_21 is called directly, and then with an output
DirectCall(args) == args.cert.is_none \/ args.root_key_cert.is_none

\* the runs: the complete command line with at most two arguments changed
Sb21Args ==
    {args \in AllArgs :
        /\ Cardinality({f \in ArgFields : args[f] # CompleteArgs[f]}) <= 2
        /\ DirectCall(args) => args.output # NoPath}

Sb21Locals ==
    [pc |-> "main", exc |-> NoError, exit_code |-> -1,
     product_version |-> "", component_version |-> "", build_number |-> -1,
     sb_kek |-> <<>>, sb_sections |-> <<>>,
     cert_block |-> CertBlockV2(0), private_key_pem_data |-> <<>>,
     hoh_out_path |-> NoPath]

\* an uncaught exception ends the process with a non-zero exit code
Sb21Raise(b, exc) == [b EXCEPT !.pc = "raised", !.exc = exc, !.exit_code = 1]

\* sys.exit(code)
SysExit(b, code) == [b EXCEPT !.pc = "exited", !.exit_code = code]

InitSB21 ==
    /\ bdArgs \in Sb21Args
    /\ bd = [Sb21Locals EXCEPT !.pc = IF DirectCall(bdArgs) THEN "parse" ELSE "main"]
    /\ bdFiles = <<>>
    /\ bdEcho = <<>>
    /\ PfrIdle /\ RotkhIdle /\ SbIdle /\ MbiIdle /\ ConfIdle /\ BcIdle

\* main, lines 496-501
Sb21Main ==
    /\ bd.pc = "main"
    /\ IF bdArgs.output = NoPath
       THEN /\ bdEcho' = Append(bdEcho, "error: no output file was specified")
            /\ bd' = SysExit(bd, 1)
       ELSE /\ bd' = [bd EXCEPT !.pc = "parse"]
            /\ UNCHANGED bdEcho
    /\ UNCHANGED <<bdArgs, bdFiles, pfrVars, rotkhVars, sbVars, mbiVars, confVars, bcVars>>

\* lines 177-184
Sb21Parse ==
    /\ bd.pc = "parse"
    /\ bd' = IF bdArgs.script.is_none THEN Sb21Raise(bd, "SyntaxError")
             ELSE [bd EXCEPT !.pc = "material"]
    /\ UNCHANGED <<bdArgs, bdFiles, bdEcho, pfrVars, rotkhVars, sbVars, mbiVars, confVars, bcVars>>

\* lines 202-208: the test of the three arguments against None
MaterialMissing(args) ==
    args.pkey = NoPath \/ args.cert.is_none \/ args.root_key_cert.is_none

Sb21Material ==
    /\ bd.pc = "material"
    /\ IF MaterialMissing(bdArgs)
       THEN /\ bdEcho' = Append(bdEcho, "error: Signed image requires private key")
            /\ bd' = SysExit(bd, 1)
       ELSE /\ bd' = [bd EXCEPT !.pc = "versions"]
            /\ UNCHANGED bdEcho
    /\ UNCHANGED <<bdArgs, bdFiles, pfrVars, rotkhVars, sbVars, mbiVars, confVars, bcVars>>

\* lines 212-226
Sb21Versions ==
    /\ bd.pc = "versions"
    /\ LET o == bdArgs.script.options
           product_version == OptionGet(o, "productVersion", "")
           component_version == OptionGet(o, "componentVersion", "")
           build_number == OptionGet(o, "buildNumber", -1)
       IN  /\ bd' = [bd EXCEPT
                       !.pc = "kek",
                       !.product_version =
                           IF product_version = "" THEN "1.0.0" ELSE product_version,
                       !.component_version =
                           IF component_version = "" THEN "1.0.0" ELSE component_version,
                       !.build_number = IF build_number = -1 THEN 1 ELSE build_number]
           /\ bdEcho' = bdEcho
                  \o (IF product_version = ""
                      THEN <<"warning: production version not defined">> ELSE <<>>)
                  \o (IF component_version = ""
                      THEN <<"warning: component version not defined">> ELSE <<>>)
                  \o (IF build_number = -1
                      THEN <<"warning: build number not defined">> ELSE <<>>)
    /\ UNCHANGED <<bdArgs, bdFiles, pfrVars, rotkhVars, sbVars, mbiVars, confVars, bcVars>>

KekWarning == "warning: no KEK key provided, using a zero KEK key"

\* lines 228-238 with a missing key file taken for an error
LoadKekStrict(key_file_path) ==
    IF key_file_path = NoPath
    THEN [err |-> "SPSDKError", sb_kek |-> <<>>, echo |-> <<>>]
    ELSE LET k == FromHexText(ReadLine(KekText[FileName(key_file_path)]))
         IN  [err |-> k.err, sb_kek |-> k.val, echo |-> <<>>]

\* lines 228-238
LoadKek(key_file_path) ==
    IF key_file_path = NoPath
    THEN [err |-> NoError, sb_kek |-> FromHex(AsSeq([i \in 1..64 |-> "0"])).val,
          echo |-> <<KekWarning>>]
    ELSE LET k == FromHexText(ReadLine(KekText[FileName(key_file_path)]))
         IN  [err |-> k.err, sb_kek |-> k.val, echo |-> <<>>]

Sb21Kek ==
    /\ bd.pc = "kek"
    /\ LET k == LoadKek(bdArgs.key)
       IN  /\ bd' = IF k.err # NoError THEN Sb21Raise(bd, k.err)
                    ELSE [bd EXCEPT !.pc = "sections", !.sb_kek = k.sb_kek]
           /\ bdEcho' = bdEcho \o k.echo
    /\ UNCHANGED <<bdArgs, bdFiles, pfrVars, rotkhVars, sbVars, mbiVars, confVars, bcVars>>

\* lines 241-280
Sb21Sections ==
    /\ bd.pc = "sections"
    /\ LET c == CompileSections(bdArgs.script.sections, 1, bdArgs.script.keyblobs)
       IN  bd' = IF c.err # NoError THEN Sb21Raise(bd, c.err)
                 ELSE [bd EXCEPT !.pc = "cert_block", !.sb_sections = c.sb_sections]
    /\ UNCHANGED <<bdArgs, bdFiles, bdEcho, pfrVars, rotkhVars, sbVars, mbiVars, confVars, bcVars>>

\* lines 284-298
Sb21CertBlock ==
    /\ bd.pc = "cert_block"
    /\ LET with_certs == AddCertificates(CertBlockV2(bd.build_number), bdArgs.cert.paths, 1)
           r == SetRootKeyHashes(with_certs, bdArgs.root_key_cert.paths, 1)
       IN  bd' = IF r.err # NoError THEN Sb21Raise(bd, r.err)
                 ELSE [bd EXCEPT !.pc = "attach", !.cert_block = r.cert_block]
    /\ UNCHANGED <<bdArgs, bdFiles, bdEcho, pfrVars, rotkhVars, sbVars, mbiVars, confVars, bcVars>>

\* lines 305-306
Sb21Attach ==
    /\ bd.pc = "attach"
    /\ bd' = [bd EXCEPT !.pc = "hash_file",
                        !.private_key_pem_data = Sb21Binary[FileName(bdArgs.pkey)]]
    /\ UNCHANGED <<bdArgs, bdFiles, bdEcho, pfrVars, rotkhVars, sbVars, mbiVars, confVars, bcVars>>

\* lines 308-310: the joined path is not kept
HashOutPath(hoh_out_path) == IF hoh_out_path = NoPath THEN Getcwd ELSE hoh_out_path

\* lines 308-313
Sb21HashFile ==
    /\ bd.pc = "hash_file"
    /\ LET path == HashOutPath(bdArgs.hash_of_hashes)
           err == OpenForWrite(path)
       IN  IF err # NoError
           THEN /\ bd' = Sb21Raise([bd EXCEPT !.hoh_out_path = path], err)
                /\ UNCHANGED bdFiles
           ELSE /\ bd' = [bd EXCEPT !.pc = "open_output", !.hoh_out_path = path]
                /\ bdFiles' = (path :> Rkht(bd.cert_block)) @@ bdFiles
    /\ UNCHANGED <<bdArgs, bdEcho, pfrVars, rotkhVars, sbVars, mbiVars, confVars, bcVars>>

\* line 315: the file is created, or emptied, when it is opened
Sb21OpenOutput ==
    /\ bd.pc = "open_output"
    /\ LET err == OpenForWrite(bdArgs.output)
       IN  IF err # NoError
           THEN /\ bd' = Sb21Raise(bd, err)
                /\ UNCHANGED bdFiles
           ELSE /\ bd' = [bd EXCEPT !.pc = "export"]
                /\ bdFiles' = (bdArgs.output :> <<>>) @@ bdFiles
    /\ UNCHANGED <<bdArgs, bdEcho, pfrVars, rotkhVars, sbVars, mbiVars, confVars, bcVars>>

\* the image of lines 284-289 and 305-306
SecureBinary(b) ==
    [kek |-> b.sb_kek, sections |-> b.sb_sections, product_version |-> b.product_version,
     component_version |-> b.component_version, build_number |-> b.build_number,
     cert_block |-> b.cert_block, private_key_pem_data |-> b.private_key_pem_data]

\* line 316, and the return to main or to the caller
Sb21Export ==
    /\ bd.pc = "export"
    /\ LET e == BootImageV21Export(SecureBinary(bd))
       IN  IF e.err # NoError
           THEN /\ bd' = Sb21Raise(bd, e.err)
                /\ UNCHANGED bdFiles
           ELSE /\ bd' = [bd EXCEPT !.pc = IF DirectCall(bdArgs) THEN "returned" ELSE "family"]
                /\ bdFiles' = (bdArgs.output :> e.data) @@ bdFiles
    /\ UNCHANGED <<bdArgs, bdEcho, pfrVars, rotkhVars, sbVars, mbiVars, confVars, bcVars>>

SUPPORTED_FAMILIES == {"lpc55s3x"}

\* main, lines 513-524, and sys.exit(main()) of line 529; the other
\* configuration options are not given with -c
Sb21Family ==
    /\ bd.pc = "family"
    /\ IF bdArgs.chip_family \notin SUPPORTED_FAMILIES
       THEN /\ bdEcho' = Append(bdEcho, "Family is not supported")
            /\ bd' = SysExit(bd, 1)
       ELSE /\ bd' = [bd EXCEPT !.pc = "exited", !.exit_code = 0]
            /\ UNCHANGED bdEcho
    /\ UNCHANGED <<bdArgs, bdFiles, pfrVars, rotkhVars, sbVars, mbiVars, confVars, bcVars>>

NextSB21 ==
    \/ Sb21Main \/ Sb21Parse \/ Sb21Material \/ Sb21Versions \/ Sb21Kek \/ Sb21Sections
    \/ Sb21CertBlock \/ Sb21Attach \/ Sb21HashFile \/ Sb21OpenOutput \/ Sb21Export
    \/ Sb21Family

SpecSB21 == InitSB21 /\ [][NextSB21]_vars

-----------------------------------------------------------------------------
(* generate_master_boot_image *)

\* load_binary(config.input_image_file)
AppBinary == [p \in {"app0.bin", "app1.bin"} |-> IF p = "app0.bin" THEN <<1, 2, 3, 4>> ELSE <<5, 6>>]

\* the configurations: MasterBootImageConfig and CertificateBlockConfig of
\* one json file, without a TrustZone preset file
MbiConfigs ==
    [output_image_auth_type : {"crc", "signed"},
     output_image_exec_target : {"ram", "xip"},
     use_isk : BOOLEAN,
     input_image_file : {"app0.bin", "app1.bin"},
     output_image_exec_address : {0},
     firmware_version : {0, 1},
     root_certs : {<<"root0.crt", "root1.crt">>},
     main_root_cert_id : {0, 1},
     isk_sign_data_path : {None},
     main_root_private_key_file : {"root0.pem"},
     isk_private_key_file : {"k256.pem", "k384.pem"},
     isk_certificate : {"isk.crt"},
     isk_constraint : {0},
     master_boot_output_file : {"mbi.bin"}]

\* lines 66-79: the lookup table and the key made of the configuration
sb3_image_types ==
    [k \in {<<"crc", "ram", FALSE>>, <<"crc", "xip", FALSE>>, <<"signed", "xip", FALSE>>,
            <<"signed", "xip", TRUE>>} |->
        CASE k = <<"crc", "ram", FALSE>> -> "CRC_RAM_IMAGE"
          [] k = <<"crc", "xip", FALSE>> -> "CRC_XIP_IMAGE"
          [] k = <<"signed", "xip", FALSE>> -> "SIGNED_XIP_IMAGE"
          [] k = <<"signed", "xip", TRUE>> -> "SIGNED_XIP_NXP_IMAGE"]

get_master_boot_image_type(config) ==
    LET image_type == <<config.output_image_auth_type, config.output_image_exec_target,
                        config.use_isk>>
    IN  IF image_type \in DOMAIN sb3_image_types
        THEN [err |-> NoError, image_type |-> sb3_image_types[image_type]]
        ELSE [err |-> "KeyError", image_type |-> None]

\* MasterBootImageType.is_signed
is_signed(image_type) == image_type \in {"SIGNED_XIP_IMAGE", "SIGNED_XIP_NXP_IMAGE"}

\* lines 124-127 with the root private key whatever use_isk is
SigningKeyPathRoot(cert_config) == cert_config.main_root_private_key_file

\* lines 124-127
SigningKeyPath(cert_config) ==
    IF cert_config.use_isk THEN cert_config.isk_private_key_file
    ELSE cert_config.main_root_private_key_file

\* MasterBootImageN4Analog.export: the application with its type, address
\* and version, the certificate block, and the signature of the provider's
\* key over all of them
MasterBootImageExport(m) ==
    LET body == m.app \o <<Len(m.image_type), m.load_addr, m.firmware_version>>
                    \o (IF m.cert_block.is_none THEN <<>> ELSE m.cert_block.data)
    IN  IF m.signature_provider.is_none THEN body \o BackendHash(body, 256)
        ELSE body \o EccSignature(FileBinary[m.signature_provider.file_path], body, 1)

MbiLocals ==
    [pc |-> "load", exc |-> NoError, app |-> <<>>, load_addr |-> 0, image_type |-> None,
     firmware_version |-> 0,
     cert_block |-> [is_none |-> TRUE, data |-> <<>>],
     signature_provider |-> [is_none |-> TRUE, file_path |-> None],
     mbi_data |-> <<>>]

MbiRaise(m, err) == [m EXCEPT !.pc = "raised", !.exc = err]

InitMBI ==
    /\ mbiConf \in MbiConfigs
    /\ mbi = MbiLocals
    /\ mbiOut = <<>>
    /\ PfrIdle /\ RotkhIdle /\ SbIdle /\ BdIdle /\ ConfIdle /\ BcIdle

\* lines 110-117
MbiLoad ==
    /\ mbi # <<>> /\ mbi.pc = "load"
    /\ LET t == get_master_boot_image_type(mbiConf)
       IN  mbi' = IF t.err # NoError THEN MbiRaise(mbi, t.err)
                  ELSE [mbi EXCEPT !.pc = "sign",
                                   !.app = AppBinary[mbiConf.input_image_file],
                                   !.load_addr = mbiConf.output_image_exec_address,
                                   !.image_type = t.image_type,
                                   !.firmware_version = mbiConf.firmware_version]
    /\ UNCHANGED <<mbiConf, mbiOut, pfrVars, rotkhVars, sbVars, bdVars, confVars, bcVars>>

\* lines 119-130
MbiSign ==
    /\ mbi # <<>> /\ mbi.pc = "sign"
    /\ IF is_signed(mbi.image_type)
       THEN LET cb == GetCertBlockV31(mbiConf)
            IN  mbi' = IF cb.err # NoError THEN MbiRaise(mbi, cb.err)
                       ELSE [mbi EXCEPT
                               !.pc = "export",
                               !.cert_block = [is_none |-> FALSE, data |-> cb.data],
                               !.signature_provider =
                                   [is_none |-> FALSE, file_path |-> SigningKeyPath(mbiConf)]]
       ELSE mbi' = [mbi EXCEPT !.pc = "export"]
    /\ UNCHANGED <<mbiConf, mbiOut, pfrVars, rotkhVars, sbVars, bdVars, confVars, bcVars>>

\* lines 132-142
MbiExport ==
    /\ mbi # <<>> /\ mbi.pc = "export"
    /\ mbi' = [mbi EXCEPT !.pc = "write", !.mbi_data = MasterBootImageExport(mbi)]
    /\ UNCHANGED <<mbiConf, mbiOut, pfrVars, rotkhVars, sbVars, bdVars, confVars, bcVars>>

\* line 144
MbiWrite ==
    /\ mbi # <<>> /\ mbi.pc = "write"
    /\ mbiOut' = Append(mbiOut, [path |-> mbiConf.master_boot_output_file,
                                 data |-> mbi.mbi_data])
    /\ mbi' = [mbi EXCEPT !.pc = "done"]
    /\ UNCHANGED <<mbiConf, pfrVars, rotkhVars, sbVars, bdVars, confVars, bcVars>>

NextMBI == MbiLoad \/ MbiSign \/ MbiExport \/ MbiWrite

SpecMBI == InitMBI /\ [][NextMBI]_vars

-----------------------------------------------------------------------------
(* PfrConfiguration.set_config_dict *)

\* the most entries of a settings mapping
MaxSettings == 2

\* A value of a mapping is a scalar or a mapping; a mapping is held as the
\* sequence of its items, in the order of its keys.
Scalar(v) == [kind |-> "scalar", scalar |-> v, items |-> <<>>]

Mapping(items) == [kind |-> "dict", scalar |-> 0, items |-> items]

Item(key, val) == [key |-> key, val |-> val]

\* the entries a settings mapping is made of: a register with a scalar, a
\* register with bit-fields in the old style, and registers in the new
\* style with the first key value, bitfields and name
SettingsEntries ==
    {Item("REG_A", Scalar(1)),
     Item("REG_B", Mapping(<<Item("FIELD_1", Scalar(1)), Item("FIELD_2", Scalar(0))>>)),
     Item("REG_C", Mapping(<<Item("value", Scalar(2))>>)),
     Item("REG_D", Mapping(<<Item("bitfields", Mapping(<<Item("FIELD_1", Scalar(1))>>))>>)),
     Item("REG_E", Mapping(<<Item("name", Scalar(7)), Item("value", Scalar(3))>>))}

\* the settings mappings: up to MaxSettings entries of different registers
SettingsPool ==
    {s \in SeqsUpTo(SettingsEntries, MaxSettings) :
        \A i, j \in 1..Len(s) : i # j => s[i].key # s[j].key}

\* lines 77-94
detect_obsolete_style_of_settings(data) ==
    /\ Len(data) # 0
    /\ \E i \in 1..Len(data) :
          \/ data[i].val.kind = "scalar"
          \/ /\ data[i].val.kind = "dict"
             /\ data[i].val.items[1].key \notin {"value", "bitfields", "name"}

\* lines 96-115
get_yml_style_of_settings(data) ==
    IF ~detect_obsolete_style_of_settings(data) THEN data
    ELSE AsSeq([i \in 1..Len(data) |->
            IF data[i].val.kind = "scalar"
            THEN Item(data[i].key, Mapping(<<Item("value", data[i].val)>>))
            ELSE Item(data[i].key,
                      Mapping(<<Item("bitfields", Mapping(data[i].val.items))>>))])

\* the data of a call: None, an empty mapping, or a mapping with or without
\* the description fields and with or without the settings field
NoData ==
    [is_none |-> TRUE, fields |-> {}, device |-> None, revision |-> None, type |-> None,
     settings |-> <<>>]

ConfData ==
    {NoData, [NoData EXCEPT !.is_none = FALSE]}
    \cup {[is_none |-> FALSE, fields |-> {"description", "settings"}, device |-> d[1],
           revision |-> d[2], type |-> d[3], settings |-> s] :
             d \in {<<"lpc55s3x", "1b", "CMPA">>, <<None, None, None>>}, s \in SettingsPool}
    \cup {[is_none |-> FALSE, fields |-> {"description"}, device |-> d[1],
           revision |-> d[2], type |-> d[3], settings |-> <<>>] :
             d \in {<<"lpc55s3x", "1b", "CMPA">>, <<None, None, None>>}}

\* a or b of Python, None being false
Or(a, b) == IF a # None THEN a ELSE b

NoSettings == [is_none |-> TRUE, entries |-> <<>>]

\* lines 117-145: the object after the call and the error raised
set_config_dict(self, data, device, revision, cfg_type) ==
    IF data.is_none \/ data.fields = {}
    THEN [err |-> "SPSDKPfrConfigReadError", self |-> self]
    ELSE LET described == [self EXCEPT !.device = Or(device, data.device),
                                       !.revision = Or(revision, data.revision),
                                       !.type = Or(cfg_type, data.type)]
         IN  IF "settings" \notin data.fields
             THEN [err |-> "SPSDKPfrConfigReadError", self |-> described]
             ELSE [err |-> NoError,
                   self |-> [described EXCEPT
                               !.settings = [is_none |-> FALSE,
                                             entries |-> get_yml_style_of_settings(data.settings)]]]

\* PfrConfiguration(device=..., revision=..., cfg_type=...), lines 59-62
InitConf ==
    /\ conf \in [device : {None, "lpc55s6x"}, revision : {None, "0a"}, type : {None, "CFPA"},
                 settings : {NoSettings}]
    /\ confArg = NoData
    /\ confRet = NoError
    /\ PfrIdle /\ RotkhIdle /\ SbIdle /\ BdIdle /\ MbiIdle /\ BcIdle

SetConfigDict ==
    /\ \E data \in ConfData, device \in {None, "lpc55s6x"} :
          LET r == set_config_dict(conf, data, device, None, None)
          IN  /\ conf' = r.self
              /\ confArg' = data
              /\ confRet' = r.err
    /\ UNCHANGED <<pfrVars, rotkhVars, sbVars, bdVars, mbiVars, bcVars>>

NextConf == SetConfigDict

SpecConf == InitConf /\ [][NextConf]_vars

-----------------------------------------------------------------------------
(* BaseConfigArea._bc_enums *)

\* the most legacy names of one bit-field
MaxAliases == 2

AliasNames == <<"OLD_A", "OLD_B", "OLD_C">>

\* the entries of the backward compatibility table for the register of a
\* call: none, one without the bit-field, and one with up to MaxAliases
\* names for it, in every order
BcConfigs ==
    {[has_reg |-> FALSE, has_bitfield |-> FALSE, names |-> <<>>],
     [has_reg |-> TRUE, has_bitfield |-> FALSE, names |-> <<>>]}
    \cup {[has_reg |-> TRUE, has_bitfield |-> TRUE, names |-> a] :
            a \in {s \in SeqsUpTo({AliasNames[i] : i \in 1..(MaxAliases + 1)}, MaxAliases) :
                      \A i, j \in 1..Len(s) : i # j => s[i] # s[j]}}

\* the calls: a register, a bit-field of one or two bits, an enum of it
BcCalls ==
    {c \in [bc_cfg : BcConfigs, reg : {"BOOT_CFG", "DCFG_CC_SOCU_PIN"},
            bitfield : {"ISP_CMD_EN"}, width : {1, 2}, enum : 0..3] :
        (c.width = 1 => c.enum <= 1)}

\* the f-strings of lines 594 and 596
ValueName(r, b, n) == r \o "_" \o b \o "_VALUE_" \o ToString(n)

EnableName(r, b, n) == r \o "_" \o b \o "_" \o (IF n = 1 THEN "ENABLE" ELSE "DISABLE")

\* lines 581-598 with the legacy names before the name of the bit-field
bc_enums_names_first(call) ==
    LET bitfield_n == (IF call.bc_cfg.has_reg /\ call.bc_cfg.has_bitfield
                       THEN call.bc_cfg.names ELSE <<>>) \o <<call.bitfield>>
    IN  Join(AsSeq([i \in 1..Len(bitfield_n) |->
            <<ValueName(call.reg, bitfield_n[i], call.enum)>>
            \o (IF call.width = 1
                THEN <<EnableName(call.reg, bitfield_n[i], call.enum)>> ELSE <<>>)]))

\* lines 581-598
bc_enums(call) ==
    LET bitfield_n == <<call.bitfield>>
                      \o (IF call.bc_cfg.has_reg /\ call.bc_cfg.has_bitfield
                          THEN call.bc_cfg.names ELSE <<>>)
    IN  Join(AsSeq([i \in 1..Len(bitfield_n) |->
            <<ValueName(call.reg, bitfield_n[i], call.enum)>>
            \o (IF call.width = 1
                THEN <<EnableName(call.reg, bitfield_n[i], call.enum)>> ELSE <<>>)]))

NoNames == [called |-> FALSE, ret |-> <<>>]

InitBc ==
    /\ bcArgs \in BcCalls
    /\ bcOut = NoNames
    /\ PfrIdle /\ RotkhIdle /\ SbIdle /\ BdIdle /\ MbiIdle /\ ConfIdle

BcEnums ==
    /\ ~bcOut.called
    /\ bcOut' = [called |-> TRUE, ret |-> bc_enums(bcArgs)]
    /\ UNCHANGED <<bcArgs, pfrVars, rotkhVars, sbVars, bdVars, mbiVars, confVars>>

NextBc == BcEnums

SpecBc == InitBc /\ [][NextBc]_vars

-----------------------------------------------------------------------------
(* Properties of the configuration area machine *)

\* the offset and the length of the seal region, from the schema
SealStart == SchemaDefs(area)[SealStartRegister(area.cls, area.device)].offset

SealBytes == 4 * SealCountOf(area.cls, area.device)

\* C1: every export that returns a value returns exactly BINARY_SIZE = 512
\* bytes, whatever the seal flag, the keys and the register values.
C1_ExportLength == ret.has => Len(ret.data) = 512

\* an export with seal and keys returned bytes while a register was populated
C1_Witness ==
    /\ op.name = "export" /\ ret.has /\ op.add_seal /\ op.keys # <<>>
    /\ regs # ResetRegs(area)

\* C2: after export(add_seal=True) the bytes of the seal region are the
\* marker 'SEAL' repeated seal_count times, also when a register lies in it.
C2_SealPresent ==
    (op.name = "export" /\ op.add_seal /\ ret.has) =>
        \A i \in 1..SealBytes :
            ret.data[SealStart + i] = <<83, 69, 65, 76>>[((i - 1) % 4) + 1]

\* a sealed export while the register at the seal offset holds a value that
\* is neither zero nor the marker
C2_Witness ==
    /\ op.name = "export" /\ op.add_seal /\ ret.has
    /\ regs[SealStartRegister(area.cls, area.device)] = <<18, 52, 86, 120>>

\* C3: parse of the bytes export returned (no seal, no keys) leaves every
\* register at the value it had before the export.
C3_RoundTrip ==
    [][(/\ op'.name = "parse" /\ op'.src = "export" /\ op'.err = NoError
        /\ ~op'.add_seal /\ op'.keys = <<>>)
        => \A n \in DOMAIN regs : regs'[n] = regs[n]]_vars

\* C4: export with keys on an area without a ROTKH register raises
\* SPSDKPfrRotkhIsNotPresent and returns no bytes.
C4_RotkhAbsent ==
    (op.name = "export" /\ op.keys # <<>> /\ "ROTKH" \notin DOMAIN regs) =>
        (op.err = "SPSDKPfrRotkhIsNotPresent" /\ ~ret.has)

\* an export with keys on a populated area that has no ROTKH register
C4_Witness ==
    /\ op.name = "export" /\ op.keys # <<>> /\ "ROTKH" \notin DOMAIN regs
    /\ regs # ResetRegs(area)

\* the configuration of the last set_config disagrees with the area or
\* carries no settings
Disagrees(o) ==
    \/ o.device # area.device
    \/ (IF o.revision \in {"", "latest"} THEN "1b" ELSE o.revision) # area.revision
    \/ (o.type # "" /\ o.type \notin {area.cls, IF area.cls = "CMPA" THEN "cmpa" ELSE "cfpa"})
    \/ o.settings = <<>>

\* C5: set_config rejects a configuration whose device, revision or type
\* disagrees with the area, or that has no settings, with a configuration
\* error, and every register keeps its value.
C5_RejectUnchanged ==
    [][(op'.name = "set_config" /\ (Disagrees(op') \/ op'.err = "SPSDKPfrConfigError"))
        => (op'.err = "SPSDKPfrConfigError" /\ Disagrees(op') /\ regs' = regs)]_vars

\* a rejected configuration that names a register whose value differs from
\* the configured one
C5_Witness ==
    /\ op.name = "set_config" /\ op.err = "SPSDKPfrConfigError"
    /\ \E n \in DOMAIN op.settings \cap DOMAIN regs : regs[n] # op.settings[n]
    /\ regs # ResetRegs(area)

\* C6 as claimed: a non-raw set_config runs the hooks for exactly the
\* registers the configuration does not name.
C6_HooksForUnnamed ==
    (op.name = "set_config" /\ ~op.raw /\ op.err = NoError) =>
        hookRuns = DOMAIN regs \ DOMAIN op.settings

\* C6 as amended: a non-raw set_config runs the hooks for exactly the
\* registers the configuration names.
C6_HooksForNamed ==
    (op.name = "set_config" /\ ~op.raw /\ op.err = NoError) =>
        hookRuns = DOMAIN regs \cap DOMAIN op.settings

\* a non-raw set_config that names one register of several
C6_Witness ==
    /\ op.name = "set_config" /\ ~op.raw /\ op.err = NoError
    /\ hookRuns # {} /\ hookRuns # DOMAIN regs

FirstKeyWidth(keys) == IF keys[1].kind = "RSA" THEN 256 ELSE keys[1].key_size

\* C8: the ROTKH computation fails whenever the algorithm width exceeds the
\* width of the ROTKH register, and then the register keeps its value and
\* nothing is returned; when it succeeds the algorithm width fits.
C8_RotkhWidth ==
    [][(op'.name = "export" /\ op'.keys # <<>> /\ "ROTKH" \in DOMAIN regs) =>
        /\ FirstKeyWidth(op'.keys) > SchemaDefs(area)["ROTKH"].width
              => (op'.err = "SPSDKPfrError" /\ regs'["ROTKH"] = regs["ROTKH"] /\ ~ret'.has)
        /\ op'.err = NoError
              => (/\ FirstKeyWidth(op'.keys) <= SchemaDefs(area)["ROTKH"].width
                  /\ Len(regs'["ROTKH"]) = SchemaDefs(area)["ROTKH"].width \div 8)]_vars

\* the computation failed on a ROTKH register that held a computed hash
C8_Witness ==
    /\ op.name = "export" /\ op.err = "SPSDKPfrError" /\ op.keys # <<>>
    /\ "ROTKH" \in DOMAIN regs
    /\ regs["ROTKH"] # ResetRegs(area)["ROTKH"]

\* the values export writes: every register export takes, or each of its
\* sub-registers when it has any, with its offset, width, reverse flag and
\* value
WrittenValues ==
    LET names == GetRegisters(area)
    IN  UNION {
          LET reg == RegDef(area, names[i])
          IN  IF reg.subs # <<>>
              THEN {[offset |-> reg.subs[k].offset, width |-> reg.subs[k].width,
                     reverse |-> reg.subs[k].reverse,
                     value |-> SubValue(regs, names[i], reg.subs, k)] :
                       k \in 1..Len(reg.subs)}
              ELSE {[offset |-> reg.offset, width |-> reg.width, reverse |-> reg.reverse,
                     value |-> GetValue(regs, names[i])]} :
          i \in 1..Len(names)}

\* every value export writes has the width its register declares
ValuesOfDeclaredWidth == \A v \in WrittenValues : Len(v.value) = v.width \div 8

\* the offsets of the exported bytes that hold no seal
Unsealed ==
    {p \in 0..(BINARY_SIZE - 1) : ~(op.add_seal /\ p \in SealStart..(SealStart + SealBytes - 1))}

\* C25 as claimed: in the bytes export returns, when every value has its
\* declared width, a register that is not
\* ignored (or each of its sub-registers) stands at its offset with the
\* most significant byte of its value first when its reverse flag is not
\* set and in the opposite order when it is set; every other byte that is
\* not of the seal is zero.
C25_WrittenMsbFirst ==
    (op.name = "export" /\ ret.has /\ ValuesOfDeclaredWidth) =>
        \A p \in Unsealed :
            IF \E v \in WrittenValues : p \in v.offset..(v.offset + v.width \div 8 - 1)
            THEN \A v \in WrittenValues :
                    p \in v.offset..(v.offset + v.width \div 8 - 1) =>
                        ret.data[p + 1] = IF v.reverse
                                          THEN v.value[v.width \div 8 - (p - v.offset)]
                                          ELSE v.value[p - v.offset + 1]
            ELSE ret.data[p + 1] = 0

\* C25 as the code has it: when every value has its declared width, a
\* register that is not ignored (or each of its sub-registers) stands at its offset with the bytes of every 4-byte word
\* of its value in the opposite order, least significant byte first, when
\* its reverse flag is not set, and with the bytes of its value as they
\* are, most significant byte first, when the flag is set; ignored
\* registers are not written and every other byte that is not of the seal
\* is zero.
C25_WrittenLsbFirst ==
    (op.name = "export" /\ ret.has /\ ValuesOfDeclaredWidth) =>
        \A p \in Unsealed :
            IF \E v \in WrittenValues : p \in v.offset..(v.offset + v.width \div 8 - 1)
            THEN \A v \in WrittenValues :
                    p \in v.offset..(v.offset + v.width \div 8 - 1) =>
                        LET j == p - v.offset
                        IN  ret.data[p + 1] = IF v.reverse THEN v.value[j + 1]
                                              ELSE v.value[(j \div 4) * 4 + (4 - (j % 4))]
            ELSE ret.data[p + 1] = 0

\* an export of the area that has a register with the reverse flag and an
\* ignored register, with the bytes of the first differing from one another
C25_Witness ==
    /\ op.name = "export" /\ ret.has /\ area.cls = "CFPA" /\ ValuesOfDeclaredWidth
    /\ \E v \in WrittenValues :
          /\ v.reverse /\ v.value[1] # v.value[4]
          /\ ret.data[v.offset + 1] = v.value[1]
    /\ \E v \in WrittenValues :
          /\ ~v.reverse /\ v.value[1] # v.value[4]
          /\ ret.data[v.offset + 1] = v.value[4]

\* C29: an export changes the value of no register but ROTKH, and of none
\* at all when its key list is empty; an export that follows an export
\* with the same seal flag and the same keys, nothing else having touched
\* the area in between, returns what the first returned.
C29_ExportKeepsRegisters ==
    [][op'.name = "export" =>
          /\ DOMAIN regs' = DOMAIN regs
          /\ \A n \in DOMAIN regs \ {ROTKH_REGISTER} : regs'[n] = regs[n]
          /\ op'.keys = <<>> => regs' = regs
          /\ (op.name = "export" /\ op.keys = op'.keys /\ op.add_seal = op'.add_seal) =>
                (ret' = ret /\ op'.err = op.err /\ regs' = regs)]_vars

\* an export without keys returned bytes for an area whose ROTKH register
\* holds a hash that an earlier export with keys has put there
C29_Witness ==
    /\ op.name = "export" /\ op.keys = <<>> /\ ret.has
    /\ ROTKH_REGISTER \in DOMAIN regs
    /\ regs[ROTKH_REGISTER] # ResetRegs(area)[ROTKH_REGISTER]
    /\ \E n \in DOMAIN regs \ {ROTKH_REGISTER} : regs[n] # ResetRegs(area)[n]

-----------------------------------------------------------------------------
(* Properties of _calc_rotkh *)

\* the hash of key i of the call at the given width, or the zero slot
SlotOf(i, aw) ==
    IF i <= Len(rkKeys) THEN calc_pub_key_hash(rkKeys[i], aw).val ELSE Zeros(aw \div 8)

\* C9: the ROTKH that _calc_rotkh returns is the hash of exactly four slots
\* in index order, slot i the hash of key i or algorithm_width/8 zero bytes
\* when there is no key i, whatever keys follow the fourth, with zero bytes
\* appended up to field_width/8 bytes.
C9_RotkhValue ==
    (rkOut.done /\ rkOut.err = NoError) =>
        LET aw == FirstKeyWidth(rkKeys)
            digest == BackendHash(SlotOf(1, aw) \o SlotOf(2, aw) \o SlotOf(3, aw) \o SlotOf(4, aw), aw)
        IN  /\ Len(rkOut.val) = rkWidth \div 8
            /\ Len(digest) = aw \div 8
            /\ \A i \in 1..Len(rkOut.val) :
                  rkOut.val[i] = IF i <= Len(digest) THEN digest[i] ELSE 0

\* a ROTKH of five keys, narrower than its field
C9_Witness ==
    /\ rkOut.done /\ rkOut.err = NoError
    /\ Len(rkKeys) = 5 /\ rkKeys[5] # rkKeys[4]
    /\ FirstKeyWidth(rkKeys) < rkWidth

\* the big-endian bytes of the two numbers of key i of the call, the
\* numbers of an EC key at the width of the first key: the modulus or X,
\* and the exponent or Y
ModulusOrX(i, aw) ==
    IF rkKeys[i].kind = "RSA" THEN rkKeys[i].n
    ELSE Zeros(aw \div 8 - Len(rkKeys[i].x)) \o rkKeys[i].x

ExponentOrY(i, aw) ==
    IF rkKeys[i].kind = "RSA" THEN rkKeys[i].e
    ELSE Zeros(aw \div 8 - Len(rkKeys[i].y)) \o rkKeys[i].y

\* the ROTKH of the call made of the given four slots
RotkhOfSlots(slots, aw) ==
    LET digest == BackendHash(slots[1] \o slots[2] \o slots[3] \o slots[4], aw)
    IN  digest \o Zeros(rkWidth \div 8 - Len(digest))

-----------------------------------------------------------------------------
(* Properties of generate_secure_binary *)

\* the bytes the signature is made for: the header, the hash of the
\* command block and the certificate block
SignedPrefix == sb.sb_header_data \o sb.final_hash \o sb.data_cb

\* C10: the signature is verified against the exact bytes it was computed
\* over (header, previous-block hash, certificate block) before anything is
\* written; when the verification fails the build stops and the container
\* file is never written.
C10_VerifiedBeforeWrite ==
    /\ written # <<>> =>
          /\ sb.verified.called
          /\ sb.verified.data = SignedPrefix /\ sb.data_to_sign = SignedPrefix
          /\ sb.verified.signature = sb.signature
          /\ EccVerify(sb.private_key_data, sb.signature, SignedPrefix)
    /\ ~sb.verified.called => written = <<>>
    /\ (sb.verified.called /\ ~EccVerify(sb.private_key_data, sb.signature, SignedPrefix)) =>
          (sb.pc = "failed" /\ sb.err = "AssertionError" /\ written = <<>>)

\* a build stopped by the verification of a signature that does not verify
C10_Witness ==
    /\ sb.pc = "failed" /\ sb.verified.called
    /\ ~EccVerify(sb.private_key_data, sb.signature, SignedPrefix)
    /\ written = <<>>

\* C11: the bytes the Secure Binary v3.1 build writes are the header, the
\* final_hash of the command block, the certificate block, the signature
\* and the command block, in this order and nothing else, in one file; the
\* signed data is the first three parts.
C11_ContainerLayout ==
    written # <<>> =>
        /\ Len(written) = 1
        /\ written[1].path = sbConf.container_output
        /\ written[1].data =
              sb.sb_header_data \o sb.final_hash \o sb.data_cb \o sb.signature
                  \o sb.commands_data
        /\ Len(sb.sb_header_data) = 60
        /\ Len(sb.final_hash) = (IF sbConf.main_curve_name = "secp256r1" THEN 32 ELSE 48)
        /\ sb.data_to_sign = sb.sb_header_data \o sb.final_hash \o sb.data_cb

\* a written container with an encrypted command block of two commands and
\* a signature longer than the hash of the curve would make it
C11_Witness ==
    /\ written # <<>> /\ sb.pc = "done"
    /\ sbConf.is_encrypted /\ Len(sbConf.commands) = 2 /\ sbConf.use_isk
    /\ Len(sb.signature) # 2 * Len(sb.final_hash)

\* C26: once the header of the Secure Binary v3.1 build is exported, its
\* image_total_length field is the size of the header plus the length of
\* final_hash plus the length of the exported certificate block plus twice
\* the length of final_hash, and its block_count field is the block count
\* of the command block; the signature made afterwards, whatever its
\* length, leaves both as they are.
C26_TotalLengthFromHash ==
    sb.sb_header_data # <<>> =>
        /\ SubSeq(sb.sb_header_data, 33, 36) =
              LE32(60 + Len(sb.final_hash) + Len(sb.data_cb) + 2 * Len(sb.final_hash))
        /\ sb.image_total_length =
              60 + Len(sb.final_hash) + Len(sb.data_cb) + 2 * Len(sb.final_hash)
        /\ SubSeq(sb.sb_header_data, 13, 16) = LE32(sb.block_count)
        /\ sb.block_count = Len(sbConf.commands)
        /\ written # <<>> => SubSeq(written[1].data, 1, 60) = sb.sb_header_data

\* a written container whose signature is not twice as long as final_hash:
\* the header announces a length that is not the length of the bytes before
\* the command block
C26_Witness ==
    /\ written # <<>> /\ sb.pc = "done"
    /\ Len(sb.signature) # 2 * Len(sb.final_hash)
    /\ sb.image_total_length # Len(sb.data_to_sign) + Len(sb.signature)
    /\ sb.block_count = 2

-----------------------------------------------------------------------------
(* Properties of generate_secure_binary_21 *)

\* the private key, the signing certificates or the root key certificates
\* are missing: an argument is None, or a repeated option was not given
MaterialAbsent(args) ==
    \/ args.pkey = NoPath
    \/ args.cert.is_none \/ args.cert.paths = <<>>
    \/ args.root_key_cert.is_none \/ args.root_key_cert.paths = <<>>

\* the build has gone past the check of lines 202-208
PastMaterial ==
    /\ ~bdArgs.script.is_none /\ bdArgs.output # NoPath
    /\ bd.pc \notin {"main", "parse", "material"}

\* C12: when the private key, the signing certificate list or the root key
\* certificate list is missing, the Secure Binary v2.1 build ends at the
\* check of the signing material with a non-zero exit and an error message,
\* before the hash file or the container file is opened or written.
C12_MissingMaterialFatal ==
    (MaterialAbsent(bdArgs) /\ PastMaterial) =>
        /\ bd.pc = "exited" /\ bd.exit_code # 0
        /\ "error: Signed image requires private key" \in {bdEcho[i] : i \in 1..Len(bdEcho)}
        /\ bdFiles = <<>>


\* the run is over: main or the function returned, exited or raised
Sb21Over == bd.pc \in {"exited", "raised", "returned"}

\* C13: a Secure Binary v2.1 build is all-or-nothing with respect to files:
\* when a run is over, either the hash file and the complete container file
\* are both written, or no file was created or modified at all.
C13_AllOrNothing ==
    Sb21Over =>
        \/ bdFiles = <<>>
        \/ /\ DOMAIN bdFiles = {bd.hoh_out_path, bdArgs.output}
           /\ bdFiles[bd.hoh_out_path] = Rkht(bd.cert_block)
           /\ BootImageV21Export(SecureBinary(bd)).err = NoError
           /\ bdFiles[bdArgs.output] = BootImageV21Export(SecureBinary(bd)).data


\* C14: in the Secure Binary v2.1 build a missing KEK file never aborts the
\* build: the step of the key-encryption key emits the warning, takes 32
\* zero bytes for the key and goes on to the sections; when a KEK file is
\* given the step emits no warning, and the key it goes on with is the one
\* read from the first line of that file.
C14_MissingKekNotFatal ==
    [][bd.pc = "kek" =>
          IF bdArgs.key = NoPath
          THEN /\ bd'.pc = "sections" /\ bd'.exc = NoError
               /\ bd'.sb_kek = Zeros(32)
               /\ bdEcho' = Append(bdEcho, KekWarning)
          ELSE /\ bdEcho' = bdEcho
               /\ bd'.pc = "sections" =>
                     bd'.sb_kek = FromHexText(ReadLine(KekText[FileName(bdArgs.key)])).val
               /\ bd'.pc # "sections" => bd'.pc = "raised" /\ bd'.exc = "ValueError"]_vars

\* a build without KEK file that went on with the zero key to the end
C14_Witness ==
    /\ bdArgs.key = NoPath /\ bd.pc = "exited" /\ bd.exit_code = 0
    /\ bd.sb_kek = Zeros(32) /\ bdArgs.output \in DOMAIN bdFiles
    /\ KekWarning \in {bdEcho[i] : i \in 1..Len(bdEcho)}


\* the file the hash of the root key hashes is to be written to
HashFileOf(args) ==
    IF args.hash_of_hashes = NoPath THEN PathJoin(Getcwd, "hash.bin")
    ELSE args.hash_of_hashes

\* C15: when no hash-of-hashes path is given, the Secure Binary v2.1 build
\* writes the root key hash (rkht) to the file 'hash.bin' in the current
\* working directory; when a path is given, it writes it to that path.
C15_HashFilePath ==
    [][bd.pc = "hash_file" =>
          bdFiles' = (HashFileOf(bdArgs) :> Rkht(bd.cert_block)) @@ bdFiles]_vars


\* C16: when more than 4 root key certificates are given to the Secure
\* Binary v2.1 build, the first 4 set the root key hashes 0..3, the others
\* are ignored without an error, and no other root key hash is set.
C16_RootCertsCapped ==
    [][(bd.pc = "cert_block" /\ Len(bdArgs.root_key_cert.paths) > 4) =>
          /\ bd'.pc = "attach" /\ bd'.exc = NoError
          /\ bd'.cert_block =
                SetRootKeyHashesCapped(
                    AddCertificates(CertBlockV2(bd.build_number), bdArgs.cert.paths, 1),
                    bdArgs.root_key_cert.paths, 1).cert_block
          /\ Len(bd'.cert_block.root_key_hashes) = 4]_vars


\* a command record of a section of the script has a key that is no known
\* command
HasUnknownKey(script) ==
    \E i \in 1..Len(script.sections) :
        \E j \in 1..Len(script.sections[i].commands) :
            \E k \in 1..Len(script.sections[i].commands[j]) :
                script.sections[i].commands[j][k].key \notin KnownCommands

\* C19: if a command record in a section of the parsed script has a key
\* that is no known command, the Secure Binary v2.1 build fails with an
\* error while compiling the sections: the step of the sections raises, no
\* section is compiled with the command left out, and neither the
\* container file nor the hash file is ever written.
C19_UnknownCommandFatal ==
    /\ [](HasUnknownKey(bdArgs.script) =>
             /\ bdFiles = <<>> /\ bd.sb_sections = <<>>
             /\ ~(bd.pc = "exited" /\ bd.exit_code = 0))
    /\ [][(bd.pc = "sections" /\ HasUnknownKey(bdArgs.script)) =>
             bd'.pc = "raised" /\ bd'.exc = "SPSDKError" /\ bd'.exit_code # 0]_vars

\* a build stopped at the sections by the unknown key of the second of
\* three sections, with the key-encryption key already loaded
C19_Witness ==
    /\ HasUnknownKey(bdArgs.script) /\ Len(bdArgs.script.sections) = 3
    /\ bd.pc = "raised" /\ bd.exc = "SPSDKError" /\ bd.sb_kek # <<>>
    /\ bdFiles = <<>>


\* the commands of a section of the script, in script order: the key and
\* the address of every item of every command record
ScriptCommands(bd_section) ==
    LET items == Join(bd_section.commands)
    IN  AsSeq([i \in 1..Len(items) |-> <<items[i].key, items[i].value.address>>])

\* the commands of a compiled boot section
SectionCommands(sb_section) ==
    AsSeq([i \in 1..Len(sb_section.commands) |->
              <<sb_section.commands[i].key, sb_section.commands[i].value.address>>])

\* the inputs of the test: every option given, files that can be written,
\* a script of known commands, a signing certificate that is one of at most
\* four root key certificates, the default family
CompleteInputs(args) ==
    /\ args.chip_family = "lpc55s3x"
    /\ args.output = <<"work", "out", "image.sb2">>
    /\ args.key = <<"work", "kek.txt">>
    /\ args.pkey # NoPath
    /\ args.cert = PathList(<<<<"work", "cert0.der">>>>)
    /\ ~args.root_key_cert.is_none /\ Len(args.root_key_cert.paths) \in 1..4
    /\ args.hash_of_hashes # NoPath
    /\ ~args.script.is_none /\ ~HasUnknownKey(args.script)

\* C20: the step of the sections of the Secure Binary v2.1 build makes
\* exactly one boot section per section of the script, in script order,
\* each with the section's identifier as it stands and the section's
\* commands in script order, also when two sections have the same
\* identifier; and a run with complete inputs (those of the test) ends
\* with exit code 0 and the container file written.
C20_SectionsInOrder ==
    /\ [][(bd.pc = "sections" /\ ~HasUnknownKey(bdArgs.script)) =>
             /\ bd'.pc = "cert_block"
             /\ Len(bd'.sb_sections) = Len(bdArgs.script.sections)
             /\ \A i \in 1..Len(bdArgs.script.sections) :
                   /\ bd'.sb_sections[i].uid = bdArgs.script.sections[i].section_id
                   /\ SectionCommands(bd'.sb_sections[i])
                          = ScriptCommands(bdArgs.script.sections[i])]_vars
    /\ []((CompleteInputs(bdArgs) /\ Sb21Over) =>
             /\ bd.pc = "exited" /\ bd.exit_code = 0
             /\ bdArgs.output \in DOMAIN bdFiles
             /\ bdFiles[bdArgs.output] = BootImageV21Export(SecureBinary(bd)).data
             /\ bdFiles[bdArgs.output] # <<>>)

\* a complete run over the script with two sections of one identifier
C20_Witness ==
    /\ CompleteInputs(bdArgs) /\ bd.pc = "exited" /\ bd.exit_code = 0
    /\ Len(bd.sb_sections) = 2 /\ bd.sb_sections[1].uid = bd.sb_sections[2].uid
    /\ Len(bd.sb_sections[2].commands) = 2
    /\ bdArgs.output \in DOMAIN bdFiles


\* C27: a run of main with a command script and a chip family that is not
\* in SUPPORTED_FAMILIES writes no file, and when it has exited its exit
\* code is not zero.
C27_UnsupportedFamilyWritesNothing ==
    (~DirectCall(bdArgs) /\ bdArgs.chip_family \notin SUPPORTED_FAMILIES) =>
        /\ bdFiles = <<>>
        /\ bd.pc = "exited" => bd.exit_code # 0

-----------------------------------------------------------------------------
(* Properties of generate_master_boot_image *)

\* C17: for every triple of authentication type (crc, signed), execution
\* target (ram, xip) and use_isk, the selection of the Master Boot Image
\* type does not fail and gives one of the four image types.
C17_TypeSelectionTotal ==
    [][mbi.pc = "load" =>
          /\ mbi'.pc = "sign" /\ mbi'.exc = NoError
          /\ mbi'.image_type \in {"CRC_RAM_IMAGE", "CRC_XIP_IMAGE", "SIGNED_XIP_IMAGE",
                                  "SIGNED_XIP_NXP_IMAGE"}]_vars

\* C18: the Master Boot Image build creates a certificate block and a
\* signature provider if and only if the selected image type is a signed
\* one (both stay None for the crc types); the signature provider is made
\* for the ISK private key file if use_isk is set and for the private key
\* file of the main root certificate otherwise.
C18_SignedOnly ==
    (mbi.pc \in {"export", "write", "done"}) =>
        LET signed == mbi.image_type \in {"SIGNED_XIP_IMAGE", "SIGNED_XIP_NXP_IMAGE"}
        IN  /\ mbi.cert_block.is_none <=> ~signed
            /\ mbi.signature_provider.is_none <=> ~signed
            /\ signed <=> mbiConf.output_image_auth_type = "signed"
            /\ (signed /\ mbiConf.use_isk) =>
                   mbi.signature_provider.file_path = mbiConf.isk_private_key_file
            /\ (signed /\ ~mbiConf.use_isk) =>
                   mbi.signature_provider.file_path = mbiConf.main_root_private_key_file
            /\ ~signed => mbi.signature_provider.file_path = None

\* a written signed image with an ISK, and its provider made for the ISK
\* private key file, which is not the root private key file
C18_Witness ==
    /\ mbi.pc = "done" /\ mbiOut # <<>>
    /\ mbi.image_type = "SIGNED_XIP_NXP_IMAGE" /\ mbiConf.use_isk
    /\ ~mbi.cert_block.is_none
    /\ mbi.signature_provider.file_path = "k384.pem"


\* the warnings of lines 218, 222 and 226
VersionWarnings ==
    [productVersion |-> "warning: production version not defined",
     componentVersion |-> "warning: component version not defined",
     buildNumber |-> "warning: build number not defined"]

\* the value the build takes for an option, after the step of lines
\* 212-226
VersionUsed(b, key) ==
    CASE key = "productVersion" -> b.product_version
      [] key = "componentVersion" -> b.component_version
      [] key = "buildNumber" -> b.build_number

\* C21: in the Secure Binary v2.1 build a productVersion or componentVersion
\* the script does not give is replaced by "1.0.0" and a buildNumber it does
\* not give by 1, each with exactly one warning; a value the script gives
\* is used unchanged and without a warning.
C21_VersionDefaults ==
    [][bd.pc = "versions" =>
          \A key \in {"productVersion", "componentVersion", "buildNumber"} :
              LET option == bdArgs.script.options[key]
                  warnings == Len(SelectSeq(bdEcho', LAMBDA m : m = VersionWarnings[key]))
              IN  IF option.given
                  THEN VersionUsed(bd', key) = option.value /\ warnings = 0
                  ELSE /\ VersionUsed(bd', key) = (IF key = "buildNumber" THEN 1 ELSE "1.0.0")
                       /\ warnings = 1]_vars


-----------------------------------------------------------------------------
(* Properties of PfrConfiguration *)

\* an entry of a settings mapping in the structured shape: the old shapes
\* converted, the structured shape kept
StructuredEntry(entry) ==
    IF entry.val.kind = "scalar"
    THEN Item(entry.key, Mapping(<<Item("value", entry.val)>>))
    ELSE IF entry.val.items[1].key \in {"value", "bitfields", "name"}
    THEN entry
    ELSE Item(entry.key, Mapping(<<Item("bitfields", Mapping(entry.val.items))>>))

\* C22: the settings a successful set_config_dict stores are the settings
\* of the data with every entry 'register: scalar' as 'register: {value:
\* scalar}', every entry 'register: {bitfield: v, ...}' as 'register:
\* {bitfields: {bitfield: v, ...}}' and every entry that is in the structured
\* shape already unchanged, also when the mapping mixes the shapes; and
\* normalizing the stored settings again changes nothing.
C22_SettingsNormalized ==
    (confRet = NoError /\ "settings" \in confArg.fields) =>
        /\ conf.settings.entries =
              AsSeq([i \in 1..Len(confArg.settings) |-> StructuredEntry(confArg.settings[i])])
        /\ get_yml_style_of_settings(conf.settings.entries) = conf.settings.entries

\* C28: when set_config_dict fails (data None or empty, or data without
\* the settings field), the device, revision, type and settings of the
\* object are what they were before the call.
C28_FailureUnchanged ==
    [][confRet' # NoError => conf' = conf]_vars


-----------------------------------------------------------------------------
(* Properties of _bc_enums *)

\* the names of the bit-field of a call: its own, then its legacy names in
\* the order the table declares them
FieldNames(call) ==
    <<call.bitfield>> \o (IF call.bc_cfg.has_bitfield THEN call.bc_cfg.names ELSE <<>>)

\* C23: for a bit-field of one bit the names of an enum are, for the name
\* of the bit-field and then for each legacy name in declared order, the
\* name '<REG>_<FIELD>_VALUE_<n>' followed by '<REG>_<FIELD>_ENABLE' when
\* the value of the enum is 1 and by '<REG>_<FIELD>_DISABLE' otherwise, so
\* ENABLE names the enum of value 1 only; for a wider bit-field they are
\* the VALUE names alone.
C23_LegacyEnumNames ==
    bcOut.called =>
        LET names == FieldNames(bcArgs)
            r == bcArgs.reg
            n == bcArgs.enum
        IN  IF bcArgs.width = 1
            THEN /\ Len(bcOut.ret) = 2 * Len(names)
                 /\ \A k \in 1..Len(names) :
                       /\ bcOut.ret[2 * k - 1] = ValueName(r, names[k], n)
                       /\ bcOut.ret[2 * k] =
                             r \o "_" \o names[k] \o (IF n = 1 THEN "_ENABLE" ELSE "_DISABLE")
                 /\ (\E k \in 1..Len(bcOut.ret) :
                        bcOut.ret[k] = r \o "_" \o bcArgs.bitfield \o "_ENABLE") <=> n = 1
            ELSE /\ Len(bcOut.ret) = Len(names)
                 /\ \A k \in 1..Len(names) : bcOut.ret[k] = ValueName(r, names[k], n)

\* the names of the enum of value 1 of a one-bit field with two legacy
\* names: six names, the ENABLE name of the second legacy name the last
C23_Witness ==
    /\ bcOut.called /\ bcArgs.width = 1 /\ bcArgs.enum = 1
    /\ bcArgs.bc_cfg.names = <<"OLD_B", "OLD_A">>
    /\ Len(bcOut.ret) = 6
    /\ bcOut.ret[6] = "DCFG_CC_SOCU_PIN_OLD_A_ENABLE"

====
